---- MODULE Spec2Model ----
(***************************************************************************)
(* Model of the audio front end of blajanclaudiu/balloon:                  *)
(*   src/src/libs/transformers/utils/audio.ts  (spectrogram, dB helpers)   *)
(*   src/unnamed/part_000                      (maths: max, FFT, permute)  *)
(*                                                                         *)
(* Numbers.  The code works on IEEE doubles / Float32Array.  The model     *)
(* works on exact reals of a small symbolic domain, all carried by one     *)
(* record shape [t, n, e, f, k]:                                           *)
(*   t = "lin" : the real  n + e * 1e-10            (n, e integers)        *)
(*   t = "ln"  : Math.log  of the real n + e*1e-10  (a positive real)      *)
(*   t = "lg"  : f * (log10(n + e*1e-10) - k)       (f, k integers)        *)
(*   t = "nan" : NaN            t = "ninf" : -Infinity                     *)
(* Equality and order of "lg" values are decided exactly by monotonicity   *)
(* of log10:  log10(a) - k <= log10(b) - j  iff  a*10^j <= b*10^k.         *)
(* Rounding of the floating-point formats is not modelled.                 *)
(***************************************************************************)
EXTENDS Integers, Sequences, FiniteSets, TLC

VARIABLES
  \* one call of spectrogram(): its arguments, its position, its locals
  args, pc, err, waveform, fft_length, num_frames, num_frequency_bins, d1, d1Max,
  fft, inputBuffer, outputBuffer, transposedMagnitudeData, i_frame, mel_spec,
  \* one direct call of amplitude_to_db / power_to_db
  dbArgs, dbBuf, dbErr, dbPc,
  \* one FFT object and the buffers of its caller
  fftLength, fftVia, fftPlan, fftBufs, fftCalls, fftErr, fftPc,
  \* one call of mel_filter_bank
  melArgs, melFilters, melErr, melPc,
  \* one call of window_function
  winArgs, winOut, winErr, winPc,
  \* one PriorityQueue and the values offered to it so far
  pqMaxSize, pqHeap, pqOffered, pqLast,
  \* one call of TTSEngine.splitTextIntoChunks
  ttsText, ttsMax, ttsPc, ttsSentences, ttsNext, ttsChunks, ttsCurrent, ttsResult,
  \* one SqliteStorage or IndexedDBStorage instance, its open requests and operations
  stoKind, stoDb, stoReqs, stoOps, stoCloses, stoLast

sgVars == <<args, pc, err, waveform, fft_length, num_frames, num_frequency_bins, d1, d1Max,
            fft, inputBuffer, outputBuffer, transposedMagnitudeData, i_frame, mel_spec>>
dbVars == <<dbArgs, dbBuf, dbErr, dbPc>>
fftVars == <<fftLength, fftVia, fftPlan, fftBufs, fftCalls, fftErr, fftPc>>
melVars == <<melArgs, melFilters, melErr, melPc>>
winVars == <<winArgs, winOut, winErr, winPc>>
pqVars == <<pqMaxSize, pqHeap, pqOffered, pqLast>>
ttsVars == <<ttsText, ttsMax, ttsPc, ttsSentences, ttsNext, ttsChunks, ttsCurrent, ttsResult>>
stoVars == <<stoKind, stoDb, stoReqs, stoOps, stoCloses, stoLast>>
vars == <<sgVars, dbVars, fftVars, melVars, winVars, pqVars, ttsVars, stoVars>>
\* everything outside one subsystem
outsideSg == <<dbVars, fftVars, melVars, winVars, pqVars, ttsVars, stoVars>>
outsideDb == <<sgVars, fftVars, melVars, winVars, pqVars, ttsVars, stoVars>>
outsideFft == <<sgVars, dbVars, melVars, winVars, pqVars, ttsVars, stoVars>>
outsideMel == <<sgVars, dbVars, fftVars, winVars, pqVars, ttsVars, stoVars>>
outsideWin == <<sgVars, dbVars, fftVars, melVars, pqVars, ttsVars, stoVars>>
outsidePq == <<sgVars, dbVars, fftVars, melVars, winVars, ttsVars, stoVars>>
outsideTts == <<sgVars, dbVars, fftVars, melVars, winVars, pqVars, stoVars>>
outsideSto == <<sgVars, dbVars, fftVars, melVars, winVars, pqVars, ttsVars>>

FftIdle ==
  /\ fftLength = 0
  /\ fftVia = "none"
  /\ fftPlan = <<>>
  /\ fftBufs = <<>>
  /\ fftCalls = <<>>
  /\ fftErr = ""
  /\ fftPc = "idle"
MelIdle ==
  /\ melArgs = <<>>
  /\ melFilters = <<>>
  /\ melErr = ""
  /\ melPc = "idle"
WinIdle ==
  /\ winArgs = <<>>
  /\ winOut = <<>>
  /\ winErr = ""
  /\ winPc = "idle"
PqIdle ==
  /\ pqMaxSize = <<>>
  /\ pqHeap = <<>>
  /\ pqOffered = <<>>
  /\ pqLast = <<>>
TtsIdle ==
  /\ ttsText = <<>>
  /\ ttsMax = <<>>
  /\ ttsPc = "idle"
  /\ ttsSentences = <<>>
  /\ ttsNext = <<>>
  /\ ttsChunks = <<>>
  /\ ttsCurrent = <<>>
  /\ ttsResult = <<>>
StoIdle ==
  /\ stoKind = <<>>
  /\ stoDb = <<>>
  /\ stoReqs = <<>>
  /\ stoOps = <<>>
  /\ stoCloses = <<>>
  /\ stoLast = <<>>

----------------------------------------------------------------------------
(* Optional values: null is the empty tuple, a present value v is <<v>>.   *)
Null == <<>>
Some(v) == <<v>>
IsNull(x) == x = <<>>
Val(x) == x[1]

----------------------------------------------------------------------------
(* Symbolic reals *)
Lin(n, e) == [t |-> "lin", n |-> n, e |-> e, f |-> 1, k |-> 0]
LnOf(a) == [t |-> "ln", n |-> a.n, e |-> a.e, f |-> 1, k |-> 0]
Lg(f, a, k) == [t |-> "lg", n |-> a.n, e |-> a.e, f |-> f, k |-> k]
NaN == [t |-> "nan", n |-> 0, e |-> 0, f |-> 1, k |-> 0]
NegInf == [t |-> "ninf", n |-> 0, e |-> 0, f |-> 1, k |-> 0]
Int2Lin(v) == Lin(v, 0)
Tiny == Lin(0, 1)
LinZero == Lin(0, 0)

\* a < b on "lin" values: the 1e-10 part only decides between equal integer parts
LinLess(a, b) == a.n < b.n \/ (a.n = b.n /\ a.e < b.e)
LinPositive(a) == LinLess(LinZero, a)
LinNegative(a) == LinLess(a, LinZero)
\* a * 10^j
LinScale(a, j) == Lin(a.n * (10 ^ j), a.e * (10 ^ j))

\* JS `a > b` on "lg" / nan / ninf values of one factor f
NumGreater(a, b) ==
  IF a.t = "nan" \/ b.t = "nan" THEN FALSE
  ELSE IF a.t = "ninf" THEN FALSE
  ELSE IF b.t = "ninf" THEN TRUE
  ELSE LinLess(LinScale([n |-> b.n, e |-> b.e], a.k), LinScale([n |-> a.n, e |-> a.e], b.k))
\* numeric equality (NaN equals nothing)
NumEq(a, b) ==
  IF a.t = "nan" \/ b.t = "nan" THEN FALSE
  ELSE IF a.t = "ninf" \/ b.t = "ninf" THEN a.t = b.t
  ELSE IF a.t # b.t THEN FALSE
  ELSE IF a.t = "lg" THEN a.f = b.f /\ a.n * (10 ^ b.k) = b.n * (10 ^ a.k)
                                    /\ a.e * (10 ^ b.k) = b.e * (10 ^ a.k)
  ELSE a.n = b.n /\ a.e = b.e
\* Math.max(a, b) on lin values
LinMax(a, b) == IF LinLess(a, b) THEN b ELSE a
\* Math.max(a, b) on log-domain values: NaN if either is NaN
NumMax(a, b) ==
  IF a.t = "nan" \/ b.t = "nan" THEN NaN
  ELSE IF NumGreater(b, a) THEN b ELSE a
\* Math.log10 of a positive integer power of ten
RECURSIVE Log10Int(_)
Log10Int(n) == IF n <= 1 THEN 0 ELSE 1 + Log10Int(n \div 10)
\* factor * Math.log10(a): NaN below zero, -Infinity at zero
FactorLog10(f, a) ==
  IF LinNegative(a) THEN NaN
  ELSE IF a = LinZero THEN NegInf
  ELSE Lg(f, a, 0)
\* Math.log(a)
MathLog(a) ==
  IF LinNegative(a) THEN NaN
  ELSE IF a = LinZero THEN NegInf
  ELSE LnOf(a)
\* x - r for a log-domain x and a real r that is a multiple of x's factor
NumMinus(x, r) == IF x.t = "lg" THEN [x EXCEPT !.k = x.k + (r \div x.f)] ELSE x

----------------------------------------------------------------------------
(* Arrays are functions on 0..n-1, indexed as in the source. *)
ALen(a) == Cardinality(DOMAIN a)
Zeros(n) == [j \in 0..(n - 1) |-> 0]
Abs(x) == IF x < 0 THEN -x ELSE x
Min2(a, b) == IF a < b THEN a ELSE b

(* maths.max: value of the maximum element, scanning from arr[0] *)
RECURSIVE MaxScan(_, _, _)
MaxScan(arr, i, m) ==
  IF i >= ALen(arr) THEN m
  ELSE MaxScan(arr, i + 1, IF NumGreater(arr[i], m) THEN arr[i] ELSE m)
MaxOf(arr) == MaxScan(arr, 1, arr[0])

(* _db_conversion_helper: returns the buffer as the call leaves it and the  *)
(* error it throws ("" if none).  reference is an integer power of ten or   *)
(* a non-positive integer; min_value is a "lin" value.                      *)
DbConvertLoop(spectrogram, factor, min_value, logReference) ==
  [i \in DOMAIN spectrogram |->
     FactorLog10(factor, Lin(LinMax(min_value, spectrogram[i]).n - logReference,
                             LinMax(min_value, spectrogram[i]).e))]
DbClipLoop(spectrogram, maxValue) ==
  [i \in DOMAIN spectrogram |-> NumMax(spectrogram[i], maxValue)]
DbConversionHelperNoReferenceCheck(spectrogram, factor, reference, min_value, db_range) ==
  IF ~LinPositive(min_value) THEN [data |-> spectrogram, err |-> "min_value must be greater than zero"]
  ELSE LET ref == LinMax(min_value, Int2Lin(reference))
           logReference == Log10Int(ref.n)
           conv == DbConvertLoop(spectrogram, factor, min_value, logReference)
       IN IF IsNull(db_range) THEN [data |-> conv, err |-> ""]
          ELSE IF Val(db_range) <= 0 THEN [data |-> conv, err |-> "db_range must be greater than zero"]
          ELSE IF ALen(conv) = 0 THEN [data |-> conv, err |-> "Array must not be empty"]
          ELSE [data |-> DbClipLoop(conv, NumMinus(MaxOf(conv), Val(db_range))), err |-> ""]
DbConversionHelper(spectrogram, factor, reference, min_value, db_range) ==
  IF reference <= 0 THEN [data |-> spectrogram, err |-> "reference must be greater than zero"]
  ELSE IF ~LinPositive(min_value) THEN [data |-> spectrogram, err |-> "min_value must be greater than zero"]
  ELSE LET ref == LinMax(min_value, Int2Lin(reference))
           logReference == Log10Int(ref.n)
           conv == DbConvertLoop(spectrogram, factor, min_value, logReference)
       IN IF IsNull(db_range) THEN [data |-> conv, err |-> ""]
          ELSE IF Val(db_range) <= 0 THEN [data |-> conv, err |-> "db_range must be greater than zero"]
          ELSE IF ALen(conv) = 0 THEN [data |-> conv, err |-> "Array must not be empty"]
          ELSE [data |-> DbClipLoop(conv, NumMinus(MaxOf(conv), Val(db_range))), err |-> ""]
AmplitudeToDb(spectrogram, reference, min_value, db_range) ==
  DbConversionHelper(spectrogram, 20, reference, min_value, db_range)
PowerToDb(spectrogram, reference, min_value, db_range) ==
  DbConversionHelper(spectrogram, 10, reference, min_value, db_range)

----------------------------------------------------------------------------
(* core.calculateReflectOffset: index of the mirrored sample, the edge      *)
(* sample not repeated.                                                     *)
CalculateReflectOffset(i, w) == Abs(((i + w) % (2 * w)) - w)

(* padReflect *)
PadReflect(array, left, right) ==
  LET n == ALen(array)
      w == n - 1
  IN [p \in 0..(n + left + right - 1) |->
        IF p < left THEN array[CalculateReflectOffset(left - p, w)]
        ELSE IF p < left + n THEN array[p - left]
        ELSE array[CalculateReflectOffset(w - (p - w - left), w)]]

----------------------------------------------------------------------------
(* maths.P2FFT, real input path, for the sizes whose twiddles are exact     *)
(* (size 2 and 4: the butterfly loop `for (step >>= 2; step >= 2; ...)`     *)
(* runs zero times, the whole transform is the initial step + mirroring).   *)
RECURSIVE Log2(_)
Log2(n) == IF n <= 1 THEN 0 ELSE 1 + Log2(n \div 2)
IsPowerOfTwo(number) == number > 0 /\ 2 ^ Log2(number) = number
P2Width(size) == IF Log2(size) % 2 = 0 THEN Log2(size) - 1 ELSE Log2(size)

SingleRealTransform2(data, out, outOff, off, step) ==
  LET evenR == data[off]
      oddR == data[off + step]
  IN [out EXCEPT ![outOff] = evenR + oddR, ![outOff + 1] = 0,
                 ![outOff + 2] = evenR - oddR, ![outOff + 3] = 0]

SingleRealTransform4(data, out, outOff, off, step, inv) ==
  LET Ar == data[off]
      Br == data[off + step]
      Cr == data[off + step * 2]
      Dr == data[off + step * 3]
      T0r == Ar + Cr
      T1r == Ar - Cr
      T2r == Br + Dr
      T3r == inv * (Br - Dr)
  IN [out EXCEPT ![outOff] = T0r + T2r, ![outOff + 1] = 0,
                 ![outOff + 2] = T1r, ![outOff + 3] = -T3r,
                 ![outOff + 4] = T0r - T2r, ![outOff + 5] = 0,
                 ![outOff + 6] = T1r, ![outOff + 7] = T3r]

\* the closing loop of _realTransform4: out[size - i] = conj(out[i]), i = 2, 4, .. < half
RECURSIVE MirrorSpectrum(_, _, _)
MirrorSpectrum(out, size, i) ==
  IF i >= size \div 2 THEN out
  ELSE MirrorSpectrum([out EXCEPT ![size - i] = out[i], ![size - i + 1] = -out[i + 1]], size, i + 2)

RealTransform4(size, out, data, inv) ==
  LET csize == 2 * size
      step == 2 ^ P2Width(size)
      len == (csize \div step) * 2
      first == IF len = 4 THEN SingleRealTransform2(data, out, 0, 0, step \div 2)
               ELSE SingleRealTransform4(data, out, 0, 0, step \div 2, inv)
  IN MirrorSpectrum(first, csize, 2)

\* FFT facade: realTransform of a plan of length size (a power of two)
FFTRealTransform(size, out, input) == RealTransform4(size, out, input, 1)
FFTOutputBufferSize(size) == 2 * size

----------------------------------------------------------------------------
(* spectrogram: the pieces of the function body *)

\* lines 497-518: the error the validation throws, "" if none
ValidationErrorNoWindowCheck(a) ==
  LET fl == IF IsNull(a.fft_length) THEN a.frame_length ELSE Val(a.fft_length)
  IN IF a.frame_length > fl THEN "frame_length may not be larger than fft_length"
     ELSE IF a.hop_length <= 0 THEN "hop_length must be greater than zero"
     ELSE IF IsNull(a.power) /\ ~IsNull(a.mel_filters) THEN "mel_filters given but power is None"
     ELSE ""
ValidationError(a) ==
  LET fl == IF IsNull(a.fft_length) THEN a.frame_length ELSE Val(a.fft_length)
  IN IF a.frame_length > fl THEN "frame_length may not be larger than fft_length"
     ELSE IF ALen(a.window) # a.frame_length THEN "Length of the window must equal frame_length"
     ELSE IF a.hop_length <= 0 THEN "hop_length must be greater than zero"
     ELSE IF IsNull(a.power) /\ ~IsNull(a.mel_filters) THEN "mel_filters given but power is None"
     ELSE ""

\* lines 520-523: the error thrown for the padding mode, "" if none
PadModeErrorAnyCenter(a) == ""
PadModeError(a) ==
  IF a.center /\ a.pad_mode # "reflect" THEN "pad_mode not implemented yet" ELSE ""

\* line 524
HalfWindowNoEdge(fl) == (fl - 1) \div 2
HalfWindow(fl) == ((fl - 1) \div 2) + 1

\* line 529
NumFrames(waveform_length, frame_length, hop_length) ==
  1 + ((waveform_length - frame_length) \div hop_length)

\* lines 530-532
ClampMinFrames(n, min_num_frames) ==
  IF ~IsNull(min_num_frames) /\ n < Val(min_num_frames) THEN Val(min_num_frames) ELSE n

\* lines 535-549: <<d1, d1Max>>
FrameLimitsNoTruncate(n, max_num_frames, do_pad) ==
  IF IsNull(max_num_frames) THEN <<n, n>>
  ELSE IF Val(max_num_frames) > n
       THEN (IF do_pad THEN <<n, Val(max_num_frames)>> ELSE <<n, n>>)
       ELSE <<n, Val(max_num_frames)>>
FrameLimits(n, max_num_frames, do_pad) ==
  IF IsNull(max_num_frames) THEN <<n, n>>
  ELSE IF Val(max_num_frames) > n
       THEN (IF do_pad THEN <<n, Val(max_num_frames)>> ELSE <<n, n>>)
       ELSE <<Val(max_num_frames), Val(max_num_frames)>>

NumFrequencyBins(onesided, fl) == IF onesided THEN (fl \div 2) + 1 ELSE fl

\* lines 559-570: reset and refill of the reused input buffer for frame i
PopulateBufferNoReset(buf, wave, frame_length, hop_length, i) ==
  LET offset == i * hop_length
      buffer_size == Min2(ALen(wave) - offset, frame_length)
  IN [j \in DOMAIN buf |-> IF j < buffer_size THEN wave[offset + j] ELSE buf[j]]
PopulateBuffer(buf, wave, frame_length, hop_length, i) ==
  LET offset == i * hop_length
      buffer_size == Min2(ALen(wave) - offset, frame_length)
      reset == IF buffer_size # frame_length
               THEN [j \in DOMAIN buf |-> IF j < frame_length THEN 0 ELSE buf[j]]
               ELSE buf
  IN [j \in DOMAIN buf |-> IF j < buffer_size THEN wave[offset + j] ELSE reset[j]]

RECURSIVE SumTo(_, _)
SumTo(buf, n) == IF n <= 0 THEN 0 ELSE buf[n - 1] + SumTo(buf, n - 1)

\* lines 572-581 (the mean is exact when buffer_size divides the sum)
RemoveDcOffset(buf, buffer_size) ==
  IF buffer_size <= 0 THEN buf
  ELSE LET mean == SumTo(buf, buffer_size) \div buffer_size
       IN [j \in DOMAIN buf |-> IF j < buffer_size THEN buf[j] - mean ELSE buf[j]]

\* lines 583-589: in place, descending j, then buf[0] *= 1 - preemphasis
RECURSIVE PreemphasisFrom(_, _, _)
PreemphasisFrom(buf, j, preemphasis) ==
  IF j < 1 THEN buf
  ELSE PreemphasisFrom([buf EXCEPT ![j] = buf[j] - preemphasis * buf[j - 1]], j - 1, preemphasis)
PreemphasisScaledFirst(buf, buffer_size, preemphasis) ==
  PreemphasisFrom([buf EXCEPT ![0] = buf[0] * (1 - preemphasis)], buffer_size - 1, preemphasis)
Preemphasis(buf, buffer_size, preemphasis) ==
  LET b == PreemphasisFrom(buf, buffer_size - 1, preemphasis)
  IN [b EXCEPT ![0] = b[0] * (1 - preemphasis)]

\* lines 592-594
ApplyWindow(buf, window) ==
  [j \in DOMAIN buf |-> IF j < ALen(window) THEN buf[j] * window[j] ELSE buf[j]]

\* lines 559-594: the input buffer handed to realTransform for frame i
PrepareFrame(buf, wave, a, i) ==
  LET buffer_size == Min2(ALen(wave) - i * a.hop_length, a.frame_length)
      b1 == PopulateBuffer(buf, wave, a.frame_length, a.hop_length, i)
      b2 == IF a.remove_dc_offset THEN RemoveDcOffset(b1, buffer_size) ELSE b1
      b3 == IF ~IsNull(a.preemphasis) THEN Preemphasis(b2, buffer_size, Val(a.preemphasis)) ELSE b2
  IN ApplyWindow(b3, a.window)

\* lines 599-604: column i of the bin-major magnitude matrix
WriteMagnitudes(tmd, out, nbins, dmax, i) ==
  [p \in DOMAIN tmd |->
     IF p % dmax = i /\ p \div dmax < nbins
     THEN out[2 * (p \div dmax)] ^ 2 + out[2 * (p \div dmax) + 1] ^ 2
     ELSE tmd[p]]

\* x ** (2 / power) for the exponents 2 (power 1) and 1/2 (power 4, on perfect squares)
RECURSIVE ISqrtFrom(_, _)
ISqrtFrom(x, r) == IF (r + 1) * (r + 1) > x THEN r ELSE ISqrtFrom(x, r + 1)
PowTwoOver(x, power) ==
  IF power = 1 THEN x * x
  ELSE IF power = 4 THEN ISqrtFrom(x, 0)
  ELSE x

\* lines 607-613
ApplyPower(tmd, power) ==
  IF ~IsNull(power) /\ Val(power) # 2
  THEN [p \in DOMAIN tmd |-> PowTwoOver(tmd[p], Val(power))]
  ELSE tmd

\* mel_filters.flat()
Flat(rows, ncols) == [p \in 0..(Len(rows) * ncols - 1) |-> rows[(p \div ncols) + 1][(p % ncols) + 1]]

\* tensor.matmul of an (m x k) by a (k x n) row-major matrix
MatMulCell(A, B, r, c, k, n, j) == A[r * k + j] * B[j * n + c]
RECURSIVE MatMulSum(_, _, _, _, _, _, _)
MatMulSum(A, B, r, c, k, n, j) ==
  IF j >= k THEN 0 ELSE MatMulCell(A, B, r, c, k, n, j) + MatMulSum(A, B, r, c, k, n, j + 1)
MatMul(A, m, k, B, n) ==
  [dims |-> <<m, n>>,
   data |-> [p \in 0..(m * n - 1) |-> MatMulSum(A, B, p \div n, p % n, k, n, 0)]]

\* maths.permute_data with axes [1, 0] on a 2-D array of shape dims, as
\* Tensor.transpose(1, 0) uses it: element (r, c) moves to (c, r)
PermuteData10(array, dims) ==
  LET rows == dims[1]
      cols == dims[2]
  IN [dims |-> <<cols, rows>>,
      data |-> [q \in DOMAIN array |-> array[(q % rows) * cols + (q \div rows)]]]

\* lines 634-637
ClipMelFloor(data, mel_floor) == [p \in DOMAIN data |-> LinMax(mel_floor, Int2Lin(data[p]))]

\* lines 639-665: the buffer as the call leaves it and the error thrown ("" if none)
LogMel(data, a, d1v, num_mel_filters) ==
  IF IsNull(a.power) \/ a.log_mel = "null" THEN [data |-> data, err |-> ""]
  ELSE LET o == Min2(ALen(data), d1v * num_mel_filters)
       IN IF a.log_mel = "log"
          THEN [data |-> [p \in DOMAIN data |-> IF p < o THEN MathLog(data[p]) ELSE data[p]], err |-> ""]
          ELSE IF a.log_mel = "log10"
          THEN [data |-> [p \in DOMAIN data |-> IF p < o THEN FactorLog10(1, data[p]) ELSE data[p]], err |-> ""]
          ELSE IF a.log_mel = "dB"
          THEN (IF Val(a.power) = 1 THEN AmplitudeToDb(data, a.reference, a.min_value, a.db_range)
                ELSE IF Val(a.power) = 2 THEN PowerToDb(data, a.reference, a.min_value, a.db_range)
                ELSE [data |-> data, err |-> "Cannot use log_mel option with power"])
          ELSE [data |-> data, err |-> "log_mel must be one of null, log, log10 or dB"]

\* Tensor.transpose(1, 0): a new tensor holding the permuted copy
TensorTranspose(t) == PermuteData10(t.data, t.dims)

----------------------------------------------------------------------------
(* The calls explored.  Every option keeps the default of lines 476-494     *)
(* unless a family below varies it.  The effective fft_length of a call     *)
(* that passes validation is 2 or 4 (exact twiddles), and a centered call   *)
(* has at least two samples (padReflect mirrors around existing samples).   *)
MaxWaveLen == 5
Ones(n) == [j \in 0..(n - 1) |-> 1]
Ramp(n, a, b) == [j \in 0..(n - 1) |-> (a * j + b) % 3]
RampWaves == {Ramp(n, 1, 1) : n \in 0..MaxWaveLen}
ValueWaves == {Ramp(n, a, b) : n \in 2..MaxWaveLen, a \in {0, 1}, b \in {0, 1, 2}}
\* two mel filters over nb frequency bins: bin 0 alone, and all other bins
MelBank(nb) == <<[c \in 1..nb |-> IF c = 1 THEN 1 ELSE 0], [c \in 1..nb |-> IF c = 1 THEN 0 ELSE 1]>>
EffectiveFft(fl, ff) == IF IsNull(ff) THEN fl ELSE Val(ff)
Defaults(w, fl, hop, ff, onesided) ==
  [waveform |-> w, window |-> Ones(fl), frame_length |-> fl, hop_length |-> hop,
   fft_length |-> ff, power |-> Some(1), center |-> TRUE, pad_mode |-> "reflect",
   onesided |-> onesided, preemphasis |-> Null,
   mel_filters |-> Some(MelBank(NumFrequencyBins(onesided, EffectiveFft(fl, ff)))),
   mel_floor |-> Tiny, log_mel |-> "null", reference |-> 1, min_value |-> Tiny,
   db_range |-> Null, remove_dc_offset |-> FALSE, min_num_frames |-> Null,
   max_num_frames |-> Null, do_pad |-> TRUE, transpose |-> FALSE]
FrameShapes == {<<2, Null>>, <<1, Some(2)>>, <<2, Some(2)>>, <<1, Some(4)>>, <<2, Some(4)>>}

\* framing and frame limits
FramingCalls ==
  {[Defaults(w, sh[1], hop, sh[2], TRUE) EXCEPT
      !.center = c, !.min_num_frames = mn, !.max_num_frames = mx, !.do_pad = dp,
      !.transpose = tr, !.log_mel = lm] :
     w \in RampWaves, sh \in FrameShapes, hop \in {1, 2}, c \in BOOLEAN,
     mn \in {Null, Some(3)}, mx \in {Null, Some(2), Some(4)}, dp \in BOOLEAN,
     tr \in BOOLEAN, lm \in {"null", "log"}}
\* values: power, pre-emphasis, log scaling
ValueCalls ==
  {[Defaults(w, 2, 1, ff, os) EXCEPT
      !.center = FALSE, !.power = Some(pw), !.preemphasis = pe, !.log_mel = lm,
      !.reference = ref, !.db_range = dr, !.transpose = tr] :
     w \in ValueWaves, ff \in {Null, Some(4)}, os \in BOOLEAN, pw \in {1, 2},
     pe \in {Null, Some(1)}, lm \in {"null", "log10", "dB"}, ref \in {1, 10},
     dr \in {Null, Some(20)}, tr \in BOOLEAN}
\* the checks of lines 497-526
ValidationCalls ==
  {[Defaults(Ramp(4, 1, 1), fl, hop, ff, TRUE) EXCEPT
      !.window = Ones(wl), !.power = pw, !.mel_filters = IF mf THEN @ ELSE Null,
      !.center = c, !.pad_mode = pm] :
     fl \in 1..3, wl \in 1..3, hop \in {0, 1}, ff \in {Null, Some(2), Some(4)},
     pw \in {Null, Some(1)}, mf \in BOOLEAN, c \in BOOLEAN, pm \in {"reflect", "constant"}}
\* the checks made after the frames are computed
LateCheckCalls ==
  {[Defaults(w, 2, 1, Null, TRUE) EXCEPT
      !.power = pw, !.mel_filters = IF mf THEN @ ELSE Null, !.log_mel = lm,
      !.reference = ref, !.min_value = mv, !.db_range = dr, !.center = c] :
     w \in {Ramp(3, 0, 0), Ramp(3, 1, 1)}, pw \in {Null, Some(1), Some(2), Some(4)}, mf \in BOOLEAN,
     lm \in {"null", "log", "dB", "decibel"}, ref \in {0, 1}, mv \in {LinZero, Tiny},
     dr \in {Null, Some(0), Some(20)}, c \in BOOLEAN}

\* DC removal, pre-emphasis and a non-constant window on frames of three and
\* four samples; the samples are multiples of 12, so every frame mean is exact
Staircase(n) == [j \in 0..(n - 1) |-> j + 1]
DcWaves == {[j \in 0..(n - 1) |-> 12 * ((a * j + b) % 3)] : n \in 3..MaxWaveLen, a \in {1, 2}, b \in {0, 1}}
FrameValueCalls ==
  {[Defaults(w, fl, 2, Some(4), TRUE) EXCEPT
      !.center = FALSE, !.power = Some(2), !.preemphasis = pe, !.remove_dc_offset = dc,
      !.window = IF stairs THEN Staircase(fl) ELSE Ones(fl), !.min_num_frames = mn] :
     w \in DcWaves, fl \in {3, 4}, pe \in {Null, Some(1), Some(2)}, dc \in BOOLEAN,
     stairs \in BOOLEAN, mn \in {Null, Some(3)}}

Modelled(a) ==
  /\ ValidationError(a) = "" => EffectiveFft(a.frame_length, a.fft_length) \in {2, 4}
  /\ a.center => ALen(a.waveform) >= 2
Calls ==
  {a \in FramingCalls \cup ValueCalls \cup ValidationCalls \cup LateCheckCalls \cup FrameValueCalls :
     Modelled(a)}

DbIdle ==
  /\ dbArgs = Null
  /\ dbBuf = <<>>
  /\ dbErr = ""
  /\ dbPc = "idle"
OutsideSgIdle == DbIdle /\ FftIdle /\ MelIdle /\ WinIdle /\ PqIdle /\ TtsIdle /\ StoIdle

Init ==
  /\ args \in Calls
  /\ pc = "start"
  /\ err = ""
  /\ waveform = args.waveform
  /\ fft_length = args.fft_length
  /\ num_frames = 0
  /\ num_frequency_bins = 0
  /\ d1 = 0
  /\ d1Max = 0
  /\ fft = Null
  /\ inputBuffer = <<>>
  /\ outputBuffer = <<>>
  /\ transposedMagnitudeData = <<>>
  /\ i_frame = 0
  /\ mel_spec = [dims |-> <<0, 0>>, data |-> <<>>]
  /\ OutsideSgIdle

Throw(e) ==
  /\ pc' = "error"
  /\ err' = e

\* lines 497-518
Validate ==
  /\ pc = "start"
  /\ fft_length' = Some(EffectiveFft(args.frame_length, fft_length))
  /\ IF ValidationError(args) # "" THEN Throw(ValidationError(args))
     ELSE pc' = "validated" /\ err' = err
  /\ UNCHANGED <<args, waveform, num_frames, num_frequency_bins, d1, d1Max, fft, inputBuffer,
                 outputBuffer, transposedMagnitudeData, i_frame, mel_spec, outsideSg>>

\* lines 520-526
Center ==
  /\ pc = "validated"
  /\ IF PadModeError(args) # ""
     THEN Throw(PadModeError(args)) /\ waveform' = waveform
     ELSE /\ waveform' = IF args.center
                         THEN PadReflect(waveform, HalfWindow(Val(fft_length)), HalfWindow(Val(fft_length)))
                         ELSE waveform
          /\ pc' = "centered"
          /\ err' = err
  /\ UNCHANGED <<args, fft_length, num_frames, num_frequency_bins, d1, d1Max, fft, inputBuffer,
                 outputBuffer, transposedMagnitudeData, i_frame, mel_spec, outsideSg>>

\* lines 528-555: frame count, limits, FFT plan and buffers
Allocate ==
  /\ pc = "centered"
  /\ LET n == ClampMinFrames(NumFrames(ALen(waveform), args.frame_length, args.hop_length),
                             args.min_num_frames)
         lim == FrameLimits(n, args.max_num_frames, args.do_pad)
         nb == NumFrequencyBins(args.onesided, Val(fft_length))
     IN /\ num_frames' = n
        /\ num_frequency_bins' = nb
        /\ d1' = lim[1]
        /\ d1Max' = lim[2]
        /\ fft' = Some(Val(fft_length))
        /\ inputBuffer' = Zeros(Val(fft_length))
        /\ outputBuffer' = Zeros(FFTOutputBufferSize(Val(fft_length)))
        /\ IF nb * lim[2] < 0
           THEN Throw("RangeError: Invalid typed array length") /\ UNCHANGED transposedMagnitudeData
           ELSE /\ transposedMagnitudeData' = Zeros(nb * lim[2])
                /\ pc' = "frames"
                /\ err' = err
  /\ UNCHANGED <<args, waveform, fft_length, i_frame, mel_spec, outsideSg>>

\* lines 557-605: one iteration of the frame loop
Frame ==
  /\ pc = "frames"
  /\ i_frame < d1
  /\ LET buf == PrepareFrame(inputBuffer, waveform, args, i_frame)
         out == FFTRealTransform(Val(fft), outputBuffer, buf)
     IN /\ inputBuffer' = buf
        /\ outputBuffer' = out
        /\ transposedMagnitudeData' = WriteMagnitudes(transposedMagnitudeData, out, num_frequency_bins, d1Max, i_frame)
  /\ i_frame' = i_frame + 1
  /\ UNCHANGED <<args, pc, err, waveform, fft_length, num_frames, num_frequency_bins, d1, d1Max,
                 fft, mel_spec, outsideSg>>

\* lines 607-613
Power ==
  /\ pc = "frames"
  /\ i_frame >= d1
  /\ transposedMagnitudeData' = ApplyPower(transposedMagnitudeData, args.power)
  /\ pc' = "powered"
  /\ UNCHANGED <<args, err, waveform, fft_length, num_frames, num_frequency_bins, d1, d1Max,
                 fft, inputBuffer, outputBuffer, i_frame, mel_spec, outsideSg>>

\* lines 615-632
MelProject ==
  /\ pc = "powered"
  /\ IF IsNull(args.mel_filters)
     THEN Throw("mel_filters must be provided") /\ UNCHANGED mel_spec
     ELSE LET num_mel_filters == Len(Val(args.mel_filters))
              product == MatMul(Flat(Val(args.mel_filters), num_frequency_bins), num_mel_filters,
                                num_frequency_bins, transposedMagnitudeData, d1Max)
          IN /\ mel_spec' = IF args.transpose THEN TensorTranspose(product) ELSE product
             /\ pc' = "projected"
             /\ err' = err
  /\ UNCHANGED <<args, waveform, fft_length, num_frames, num_frequency_bins, d1, d1Max,
                 fft, inputBuffer, outputBuffer, transposedMagnitudeData, i_frame, outsideSg>>

\* lines 634-637
MelFloor ==
  /\ pc = "projected"
  /\ mel_spec' = [mel_spec EXCEPT !.data = ClipMelFloor(mel_spec.data, args.mel_floor)]
  /\ pc' = "floored"
  /\ UNCHANGED <<args, err, waveform, fft_length, num_frames, num_frequency_bins, d1, d1Max,
                 fft, inputBuffer, outputBuffer, transposedMagnitudeData, i_frame, outsideSg>>

\* lines 639-667
LogScale ==
  /\ pc = "floored"
  /\ LET r == LogMel(mel_spec.data, args, d1, Len(Val(args.mel_filters)))
     IN /\ mel_spec' = [mel_spec EXCEPT !.data = r.data]
        /\ IF r.err # "" THEN Throw(r.err) ELSE pc' = "done" /\ err' = err
  /\ UNCHANGED <<args, waveform, fft_length, num_frames, num_frequency_bins, d1, d1Max,
                 fft, inputBuffer, outputBuffer, transposedMagnitudeData, i_frame, outsideSg>>

Next == Validate \/ Center \/ Allocate \/ Frame \/ Power \/ MelProject \/ MelFloor \/ LogScale

Spec == Init /\ [][Next]_vars

SgIdle ==
  /\ args = Null
  /\ pc = "idle"
  /\ err = ""
  /\ waveform = <<>>
  /\ fft_length = Null
  /\ num_frames = 0
  /\ num_frequency_bins = 0
  /\ d1 = 0
  /\ d1Max = 0
  /\ fft = Null
  /\ inputBuffer = <<>>
  /\ outputBuffer = <<>>
  /\ transposedMagnitudeData = <<>>
  /\ i_frame = 0
  /\ mel_spec = [dims |-> <<0, 0>>, data |-> <<>>]
OutsideDbIdle == SgIdle /\ FftIdle /\ MelIdle /\ WinIdle /\ PqIdle /\ TtsIdle /\ StoIdle
OutsideFftIdle == SgIdle /\ DbIdle /\ MelIdle /\ WinIdle /\ PqIdle /\ TtsIdle /\ StoIdle
OutsideMelIdle == SgIdle /\ DbIdle /\ FftIdle /\ WinIdle /\ PqIdle /\ TtsIdle /\ StoIdle
OutsideWinIdle == SgIdle /\ DbIdle /\ FftIdle /\ MelIdle /\ PqIdle /\ TtsIdle /\ StoIdle
OutsidePqIdle == SgIdle /\ DbIdle /\ FftIdle /\ MelIdle /\ WinIdle /\ TtsIdle /\ StoIdle
OutsideTtsIdle == SgIdle /\ DbIdle /\ FftIdle /\ MelIdle /\ WinIdle /\ PqIdle /\ StoIdle
OutsideStoIdle == SgIdle /\ DbIdle /\ FftIdle /\ MelIdle /\ WinIdle /\ PqIdle /\ TtsIdle

----------------------------------------------------------------------------
(* Direct calls of amplitude_to_db / power_to_db on small buffers *)
MaxDbLen == 2
DbValues == {LinZero, Tiny, Int2Lin(1), Int2Lin(2), Int2Lin(10), Int2Lin(100)}
DbReferences == {0, 1, 10}
DbMinValues == {LinZero, Tiny, Int2Lin(10)}
DbRangeSteps == {0, 1, 2}
DbBuffers == UNION {[0..(n - 1) -> DbValues] : n \in 1..MaxDbLen}

InitDb ==
  /\ dbArgs \in [spectrogram : DbBuffers, reference : DbReferences,
                 min_value : DbMinValues, rangeSteps : {Null} \cup {Some(s) : s \in DbRangeSteps}]
  /\ dbBuf = dbArgs.spectrogram
  /\ dbErr = ""
  /\ dbPc = "call"
  /\ OutsideDbIdle

\* db_range is drawn as a multiple of the factor, so that range / factor is an integer
DbRangeArg(a, factor) == IF IsNull(a.rangeSteps) THEN Null ELSE Some(Val(a.rangeSteps) * factor)

CallAmplitudeToDb ==
  /\ dbPc = "call"
  /\ LET r == AmplitudeToDb(dbBuf, dbArgs.reference, dbArgs.min_value, DbRangeArg(dbArgs, 20))
     IN /\ dbBuf' = r.data
        /\ dbErr' = r.err
        /\ dbPc' = IF r.err = "" THEN "amplitude_db" ELSE "error"
  /\ UNCHANGED <<dbArgs, outsideDb>>

CallPowerToDb ==
  /\ dbPc = "call"
  /\ LET r == PowerToDb(dbBuf, dbArgs.reference, dbArgs.min_value, DbRangeArg(dbArgs, 10))
     IN /\ dbBuf' = r.data
        /\ dbErr' = r.err
        /\ dbPc' = IF r.err = "" THEN "power_db" ELSE "error"
  /\ UNCHANGED <<dbArgs, outsideDb>>

NextDb == CallAmplitudeToDb \/ CallPowerToDb

SpecDb == InitDb /\ [][NextDb]_vars

----------------------------------------------------------------------------
(* maths.P2FFT / NP2FFT / FFT on exact numbers.                             *)
(*                                                                         *)
(* The twiddle factors of the lengths explored (2, 4, 8 and, through the    *)
(* chirp-z transform, 3) are 24th roots of unity, whose real and imaginary  *)
(* parts lie in the field Q(sqrt2, sqrt3).  A number is the record          *)
(*   [a, b, c, d, q]  =  (a + b*sqrt2 + c*sqrt3 + d*sqrt6) / 2^q            *)
(* kept in lowest terms, so that equal numbers are equal records; q = -1    *)
(* is NaN.  Rounding of doubles is not modelled.                            *)
QRaw(a, b, c, d, q) == [a |-> a, b |-> b, c |-> c, d |-> d, q |-> q]
QNaN == QRaw(0, 0, 0, 0, -1)
QIsNaN(x) == x.q < 0
RECURSIVE QNorm(_)
QNorm(x) ==
  IF x.q > 0 /\ x.a % 2 = 0 /\ x.b % 2 = 0 /\ x.c % 2 = 0 /\ x.d % 2 = 0
  THEN QNorm(QRaw(x.a \div 2, x.b \div 2, x.c \div 2, x.d \div 2, x.q - 1))
  ELSE x
QInt(v) == QRaw(v, 0, 0, 0, 0)
QZero == QInt(0)
QNeg(x) == IF QIsNaN(x) THEN QNaN ELSE QRaw(-x.a, -x.b, -x.c, -x.d, x.q)
QAdd(x, y) ==
  IF QIsNaN(x) \/ QIsNaN(y) THEN QNaN
  ELSE LET q == IF x.q > y.q THEN x.q ELSE y.q
           sx == 2 ^ (q - x.q)
           sy == 2 ^ (q - y.q)
       IN QNorm(QRaw(x.a * sx + y.a * sy, x.b * sx + y.b * sy,
                     x.c * sx + y.c * sy, x.d * sx + y.d * sy, q))
QSub(x, y) == QAdd(x, QNeg(y))
QMul(x, y) ==
  IF QIsNaN(x) \/ QIsNaN(y) THEN QNaN
  ELSE QNorm(QRaw(x.a * y.a + 2 * x.b * y.b + 3 * x.c * y.c + 6 * x.d * y.d,
                  x.a * y.b + x.b * y.a + 3 * (x.c * y.d + x.d * y.c),
                  x.a * y.c + x.c * y.a + 2 * (x.b * y.d + x.d * y.b),
                  x.a * y.d + x.d * y.a + x.b * y.c + x.c * y.b,
                  x.q + y.q))
\* x / n for n a power of two (out[i] /= this.size)
QDivPow2(x, n) == IF QIsNaN(x) THEN QNaN ELSE QNorm(QRaw(x.a, x.b, x.c, x.d, x.q + Log2(n)))
\* inv * x for inv = 1 or -1
QSign(inv, x) == IF inv = 1 THEN x ELSE QNeg(x)

\* Math.cos / Math.sin of the angle 2*pi*m/24
Cos24(m) ==
  LET r == m % 24
      h == IF r > 12 THEN 24 - r ELSE r
      k == IF h > 6 THEN 12 - h ELSE h
      c == CASE k = 0 -> QInt(1)
             [] k = 1 -> QRaw(0, 1, 0, 1, 2)
             [] k = 2 -> QRaw(0, 0, 1, 0, 1)
             [] k = 3 -> QRaw(0, 1, 0, 0, 1)
             [] k = 4 -> QRaw(1, 0, 0, 0, 1)
             [] k = 5 -> QRaw(0, -1, 0, 1, 2)
             [] k = 6 -> QZero
  IN IF h > 6 THEN QNeg(c) ELSE c
Sin24(m) == Cos24(m + 18)

\* typed-array element access: a read outside the array is undefined (NaN in
\* arithmetic), a write outside the array is ignored
Rd(arr, j) == IF j \in DOMAIN arr THEN arr[j] ELSE QNaN
Wr(arr, j, v) == IF j \in DOMAIN arr THEN [arr EXCEPT ![j] = v] ELSE arr
QZeros(n) == [j \in 0..(n - 1) |-> QZero]

(* P2FFT.constructor *)
\* the lengths whose twiddle factors are in the number domain
ExactP2Sizes == {2, 4, 8}
\* ((j >>> shift) & 3) << revShift on 32-bit integers; a shift count of -1 is 31
BitrevTerm(j, shift, revShift) ==
  LET v == (j \div (2 ^ shift)) % 4
  IN IF revShift >= 0 THEN v * (2 ^ revShift)
     ELSE IF v % 2 = 1 THEN (-2147483647) - 1 ELSE 0
RECURSIVE BitrevFrom(_, _, _)
BitrevFrom(j, width, shift) ==
  IF shift >= width THEN 0
  ELSE BitrevTerm(j, shift, width - shift - 2) + BitrevFrom(j, width, shift + 2)
P2Table(size) ==
  [i \in 0..(2 * size - 1) |->
     IF i % 2 = 0 THEN Cos24((i * 12) \div size)
     ELSE QNeg(Sin24(((i - 1) * 12) \div size))]
P2FFTNew(size) ==
  [size |-> size, csize |-> 2 * size, width |-> P2Width(size),
   bitrev |-> [j \in 0..(2 ^ P2Width(size) - 1) |-> BitrevFrom(j, P2Width(size), 0)],
   table |-> IF size \in ExactP2Sizes THEN P2Table(size) ELSE <<>>]

(* P2FFT._singleTransform2 / _singleTransform4 *)
P2SingleTransform2SameImag(data, out, outOff, off, step) ==
  LET evenR == Rd(data, off)
      evenI == Rd(data, off + 1)
      oddR == Rd(data, off + step)
      oddI == Rd(data, off + 1)
      o1 == Wr(out, outOff, QAdd(evenR, oddR))
      o2 == Wr(o1, outOff + 1, QAdd(evenI, oddI))
      o3 == Wr(o2, outOff + 2, QSub(evenR, oddR))
  IN Wr(o3, outOff + 3, QSub(evenI, oddI))
P2SingleTransform2(data, out, outOff, off, step) ==
  LET evenR == Rd(data, off)
      evenI == Rd(data, off + 1)
      oddR == Rd(data, off + step)
      oddI == Rd(data, off + step + 1)
      o1 == Wr(out, outOff, QAdd(evenR, oddR))
      o2 == Wr(o1, outOff + 1, QAdd(evenI, oddI))
      o3 == Wr(o2, outOff + 2, QSub(evenR, oddR))
  IN Wr(o3, outOff + 3, QSub(evenI, oddI))

P2SingleTransform4(data, out, outOff, off, step, inv) ==
  LET Ar == Rd(data, off)
      Ai == Rd(data, off + 1)
      Br == Rd(data, off + step)
      Bi == Rd(data, off + step + 1)
      Cr == Rd(data, off + step * 2)
      Ci == Rd(data, off + step * 2 + 1)
      Dr == Rd(data, off + step * 3)
      Di == Rd(data, off + step * 3 + 1)
      T0r == QAdd(Ar, Cr)
      T0i == QAdd(Ai, Ci)
      T1r == QSub(Ar, Cr)
      T1i == QSub(Ai, Ci)
      T2r == QAdd(Br, Dr)
      T2i == QAdd(Bi, Di)
      T3r == QSign(inv, QSub(Br, Dr))
      T3i == QSign(inv, QSub(Bi, Di))
      o0 == Wr(out, outOff, QAdd(T0r, T2r))
      o1 == Wr(o0, outOff + 1, QAdd(T0i, T2i))
      o2 == Wr(o1, outOff + 2, QAdd(T1r, T3i))
      o3 == Wr(o2, outOff + 3, QSub(T1i, T3r))
      o4 == Wr(o3, outOff + 4, QSub(T0r, T2r))
      o5 == Wr(o4, outOff + 5, QSub(T0i, T2i))
      o6 == Wr(o5, outOff + 6, QSub(T1r, T3i))
  IN Wr(o6, outOff + 7, QAdd(T1i, T3r))

\* the initial (permute and transform) loop of _transform4
RECURSIVE P2InitialStep(_, _, _, _, _, _, _)
P2InitialStep(plan, out, data, inv, step, len, t) ==
  IF t * len >= plan.csize THEN out
  ELSE P2InitialStep(plan,
         IF len = 4 THEN P2SingleTransform2(data, out, t * len, plan.bitrev[t], step)
         ELSE P2SingleTransform4(data, out, t * len, plan.bitrev[t], step, inv),
         data, inv, step, len, t + 1)

\* one radix-4 butterfly of _transform4, in place at A, B, C, D
P2Butterfly(table, out, inv, A, quarterLen, k) ==
  LET B == A + quarterLen
      C == B + quarterLen
      D == C + quarterLen
      Ar == Rd(out, A)
      Ai == Rd(out, A + 1)
      Br == Rd(out, B)
      Bi == Rd(out, B + 1)
      Cr == Rd(out, C)
      Ci == Rd(out, C + 1)
      Dr == Rd(out, D)
      Di == Rd(out, D + 1)
      tableBr == Rd(table, k)
      tableBi == QSign(inv, Rd(table, k + 1))
      MBr == QSub(QMul(Br, tableBr), QMul(Bi, tableBi))
      MBi == QAdd(QMul(Br, tableBi), QMul(Bi, tableBr))
      tableCr == Rd(table, 2 * k)
      tableCi == QSign(inv, Rd(table, 2 * k + 1))
      MCr == QSub(QMul(Cr, tableCr), QMul(Ci, tableCi))
      MCi == QAdd(QMul(Cr, tableCi), QMul(Ci, tableCr))
      tableDr == Rd(table, 3 * k)
      tableDi == QSign(inv, Rd(table, 3 * k + 1))
      MDr == QSub(QMul(Dr, tableDr), QMul(Di, tableDi))
      MDi == QAdd(QMul(Dr, tableDi), QMul(Di, tableDr))
      T0r == QAdd(Ar, MCr)
      T0i == QAdd(Ai, MCi)
      T1r == QSub(Ar, MCr)
      T1i == QSub(Ai, MCi)
      T2r == QAdd(MBr, MDr)
      T2i == QAdd(MBi, MDi)
      T3r == QSign(inv, QSub(MBr, MDr))
      T3i == QSign(inv, QSub(MBi, MDi))
      o0 == Wr(out, A, QAdd(T0r, T2r))
      o1 == Wr(o0, A + 1, QAdd(T0i, T2i))
      o2 == Wr(o1, B, QAdd(T1r, T3i))
      o3 == Wr(o2, B + 1, QSub(T1i, T3r))
      o4 == Wr(o3, C, QSub(T0r, T2r))
      o5 == Wr(o4, C + 1, QSub(T0i, T2i))
      o6 == Wr(o5, D, QSub(T1r, T3i))
  IN Wr(o6, D + 1, QAdd(T1i, T3r))

\* for (let i = outOff, k = 0; i < limit; i += 2, k += step)
RECURSIVE P2ButterflyRow(_, _, _, _, _, _, _, _)
P2ButterflyRow(plan, out, inv, step, quarterLen, limit, i, k) ==
  IF i >= limit THEN out
  ELSE P2ButterflyRow(plan, P2Butterfly(plan.table, out, inv, i, quarterLen, k),
                      inv, step, quarterLen, limit, i + 2, k + step)
\* for (outOff = 0; outOff < size; outOff += len)
RECURSIVE P2ButterflyPass(_, _, _, _, _, _)
P2ButterflyPass(plan, out, inv, step, len, outOff) ==
  IF outOff >= plan.csize THEN out
  ELSE P2ButterflyPass(plan,
         P2ButterflyRow(plan, out, inv, step, len \div 4, outOff + (len \div 4) - 1, outOff, 0),
         inv, step, len, outOff + len)
\* for (step >>= 2; step >= 2; step >>= 2)
RECURSIVE P2ButterflySteps(_, _, _, _)
P2ButterflySteps(plan, out, inv, step) ==
  IF step < 2 THEN out
  ELSE P2ButterflySteps(plan, P2ButterflyPass(plan, out, inv, step, (plan.csize \div step) * 2, 0),
                        inv, step \div 4)

(* P2FFT._transform4 *)
P2Transform4(plan, out, data, inv) ==
  LET step == 2 ^ plan.width
      len == (plan.csize \div step) * 2
  IN P2ButterflySteps(plan, P2InitialStep(plan, out, data, inv, step, len, 0), inv, step \div 4)

(* P2FFT._singleRealTransform2 / _singleRealTransform4 *)
P2SingleRealTransform2KeepImag(data, out, outOff, off, step) ==
  LET evenR == Rd(data, off)
      oddR == Rd(data, off + step)
  IN Wr(Wr(out, outOff, QAdd(evenR, oddR)), outOff + 2, QSub(evenR, oddR))
P2SingleRealTransform2(data, out, outOff, off, step) ==
  LET evenR == Rd(data, off)
      oddR == Rd(data, off + step)
      o1 == Wr(out, outOff, QAdd(evenR, oddR))
      o2 == Wr(o1, outOff + 1, QZero)
      o3 == Wr(o2, outOff + 2, QSub(evenR, oddR))
  IN Wr(o3, outOff + 3, QZero)

P2SingleRealTransform4(data, out, outOff, off, step, inv) ==
  LET Ar == Rd(data, off)
      Br == Rd(data, off + step)
      Cr == Rd(data, off + step * 2)
      Dr == Rd(data, off + step * 3)
      T0r == QAdd(Ar, Cr)
      T1r == QSub(Ar, Cr)
      T2r == QAdd(Br, Dr)
      T3r == QSign(inv, QSub(Br, Dr))
      o0 == Wr(out, outOff, QAdd(T0r, T2r))
      o1 == Wr(o0, outOff + 1, QZero)
      o2 == Wr(o1, outOff + 2, T1r)
      o3 == Wr(o2, outOff + 3, QNeg(T3r))
      o4 == Wr(o3, outOff + 4, QSub(T0r, T2r))
      o5 == Wr(o4, outOff + 5, QZero)
      o6 == Wr(o5, outOff + 6, T1r)
  IN Wr(o6, outOff + 7, T3r)

\* the initial loop of _realTransform4 (off >>> 1, step >>> 1)
RECURSIVE P2RealInitialStep(_, _, _, _, _, _, _)
P2RealInitialStep(plan, out, data, inv, step, len, t) ==
  IF t * len >= plan.csize THEN out
  ELSE P2RealInitialStep(plan,
         IF len = 4 THEN P2SingleRealTransform2(data, out, t * len, plan.bitrev[t] \div 2, step \div 2)
         ELSE P2SingleRealTransform4(data, out, t * len, plan.bitrev[t] \div 2, step \div 2, inv),
         data, inv, step, len, t + 1)

\* one iteration of the inner loop of _realTransform4 at offset outOff + i
P2RealButterfly(table, out, inv, outOff, i, halfLen, k) ==
  LET quarterLen == halfLen \div 2
      hquarterLen == quarterLen \div 2
      A == outOff + i
      B == A + quarterLen
      C == B + quarterLen
      D == C + quarterLen
      Ar == Rd(out, A)
      Ai == Rd(out, A + 1)
      Br == Rd(out, B)
      Bi == Rd(out, B + 1)
      Cr == Rd(out, C)
      Ci == Rd(out, C + 1)
      Dr == Rd(out, D)
      Di == Rd(out, D + 1)
      tableBr == Rd(table, k)
      tableBi == QSign(inv, Rd(table, k + 1))
      MBr == QSub(QMul(Br, tableBr), QMul(Bi, tableBi))
      MBi == QAdd(QMul(Br, tableBi), QMul(Bi, tableBr))
      tableCr == Rd(table, 2 * k)
      tableCi == QSign(inv, Rd(table, 2 * k + 1))
      MCr == QSub(QMul(Cr, tableCr), QMul(Ci, tableCi))
      MCi == QAdd(QMul(Cr, tableCi), QMul(Ci, tableCr))
      tableDr == Rd(table, 3 * k)
      tableDi == QSign(inv, Rd(table, 3 * k + 1))
      MDr == QSub(QMul(Dr, tableDr), QMul(Di, tableDi))
      MDi == QAdd(QMul(Dr, tableDi), QMul(Di, tableDr))
      T0r == QAdd(Ar, MCr)
      T0i == QAdd(Ai, MCi)
      T1r == QSub(Ar, MCr)
      T1i == QSub(Ai, MCi)
      T2r == QAdd(MBr, MDr)
      T2i == QAdd(MBi, MDi)
      T3r == QSign(inv, QSub(MBr, MDr))
      T3i == QSign(inv, QSub(MBi, MDi))
      o0 == Wr(out, A, QAdd(T0r, T2r))
      o1 == Wr(o0, A + 1, QAdd(T0i, T2i))
      o2 == Wr(o1, B, QAdd(T1r, T3i))
      o3 == Wr(o2, B + 1, QSub(T1i, T3r))
      SA == outOff + quarterLen - i
      SB == outOff + halfLen - i
  IN IF i = 0 THEN Wr(Wr(o3, C, QSub(T0r, T2r)), C + 1, QSub(T0i, T2i))
     ELSE IF i = hquarterLen THEN o3
     ELSE LET s0 == Wr(o3, SA, QSub(T1r, QSign(inv, T3i)))
              s1 == Wr(s0, SA + 1, QSub(QNeg(T1i), QSign(inv, T3r)))
              s2 == Wr(s1, SB, QSub(T0r, QSign(inv, T2r)))
          IN Wr(s2, SB + 1, QAdd(QNeg(T0i), QSign(inv, T2i)))

\* for (let i = 0, k = 0; i <= hquarterLen; i += 2, k += step)
RECURSIVE P2RealButterflyRow(_, _, _, _, _, _, _, _)
P2RealButterflyRow(plan, out, inv, step, halfLen, outOff, i, k) ==
  IF i > (halfLen \div 4) THEN out
  ELSE P2RealButterflyRow(plan, P2RealButterfly(plan.table, out, inv, outOff, i, halfLen, k),
                          inv, step, halfLen, outOff, i + 2, k + step)
RECURSIVE P2RealButterflyPass(_, _, _, _, _, _)
P2RealButterflyPass(plan, out, inv, step, len, outOff) ==
  IF outOff >= plan.csize THEN out
  ELSE P2RealButterflyPass(plan, P2RealButterflyRow(plan, out, inv, step, len \div 2, outOff, 0, 0),
                           inv, step, len, outOff + len)
RECURSIVE P2RealButterflySteps(_, _, _, _)
P2RealButterflySteps(plan, out, inv, step) ==
  IF step < 2 THEN out
  ELSE P2RealButterflySteps(plan, P2RealButterflyPass(plan, out, inv, step, (plan.csize \div step) * 2, 0),
                            inv, step \div 4)

\* the closing loop of _realTransform4: out[size - i] = out[i], out[size - i + 1] = -out[i + 1]
RECURSIVE P2MirrorNoConjugate(_, _, _)
P2MirrorNoConjugate(out, size, i) ==
  IF i >= size \div 2 THEN out
  ELSE P2MirrorNoConjugate(Wr(Wr(out, size - i, Rd(out, i)), size - i + 1, Rd(out, i + 1)), size, i + 2)
RECURSIVE P2Mirror(_, _, _)
P2Mirror(out, size, i) ==
  IF i >= size \div 2 THEN out
  ELSE P2Mirror(Wr(Wr(out, size - i, Rd(out, i)), size - i + 1, QNeg(Rd(out, i + 1))), size, i + 2)

(* P2FFT._realTransform4 *)
P2RealTransform4(plan, out, data, inv) ==
  LET step == 2 ^ plan.width
      len == (plan.csize \div step) * 2
      first == P2RealInitialStep(plan, out, data, inv, step, len, 0)
  IN P2Mirror(P2RealButterflySteps(plan, first, inv, step \div 4), plan.csize, 2)

(* P2FFT.transform / realTransform / inverseTransform: the output buffer as  *)
(* the call leaves it and the error thrown ("" if none); same is `out === data` *)
AliasingMessage == "Input and output buffers must be different"
P2TransformNoAliasCheck(plan, out, data, same) ==
  [out |-> P2Transform4(plan, out, data, 1), err |-> ""]
P2Transform(plan, out, data, same) ==
  IF same THEN [out |-> out, err |-> AliasingMessage]
  ELSE [out |-> P2Transform4(plan, out, data, 1), err |-> ""]
P2RealTransform(plan, out, data, same) ==
  IF same THEN [out |-> out, err |-> AliasingMessage]
  ELSE [out |-> P2RealTransform4(plan, out, data, 1), err |-> ""]
\* for (let i = 0; i < out.length; ++i) out[i] /= this.size
P2ScaleAll(out, size) == [i \in DOMAIN out |-> QDivPow2(out[i], size)]
P2InverseTransformNoScale(plan, out, data, same) ==
  IF same THEN [out |-> out, err |-> AliasingMessage]
  ELSE [out |-> P2Transform4(plan, out, data, -1), err |-> ""]
P2InverseTransform(plan, out, data, same) ==
  IF same THEN [out |-> out, err |-> AliasingMessage]
  ELSE [out |-> P2ScaleAll(P2Transform4(plan, out, data, -1), plan.size), err |-> ""]

(* NP2FFT.constructor *)
\* the lengths whose chirp and inner twiddle factors are in the number domain
ExactNP2Lengths == {3}
\* Math.ceil(Math.log2(b))
RECURSIVE CeilLog2From(_, _)
CeilLog2From(b, p) == IF 2 ^ p >= b THEN p ELSE CeilLog2From(b, p + 1)
CeilLog2(b) == CeilLog2From(b, 0)
NextP2(fft_len) == 2 ^ CeilLog2(2 * (2 * fft_len - 1))
\* e * Math.atan2(baseI, baseR) for e = (i + 1 - fft_length)^2 / 2 and theta = -2*pi/fft_length,
\* as a count of 24ths of a turn in 0..23; result_mod is sqrt(cos^2 + sin^2) ^ e = 1
ChirpAngle24(fft_len, i) ==
  LET k == i + 1 - fft_len
  IN (24 - (((k * k * 12) \div fft_len) % 24)) % 24
Chirp(fft_len) ==
  [j \in 0..(2 * (2 * fft_len - 1) - 1) |->
     IF j \div 2 < (2 * fft_len - 1)
     THEN (IF j % 2 = 0 THEN Cos24(ChirpAngle24(fft_len, j \div 2))
           ELSE Sin24(ChirpAngle24(fft_len, j \div 2)))
     ELSE QZero]
IChirp(fft_len) ==
  LET chirp == Chirp(fft_len)
  IN [j \in 0..(NextP2(fft_len) - 1) |->
        IF j \div 2 < (2 * fft_len - 1)
        THEN (IF j % 2 = 0 THEN chirp[j] ELSE QNeg(chirp[j]))
        ELSE QZero]
\* chirp.subarray(a, b)
SlicedChirp(fft_len) ==
  LET chirp == Chirp(fft_len)
      a == 2 * (fft_len - 1)
  IN [j \in 0..(2 * fft_len - 1) |-> chirp[j + a]]
NP2FFTNew(fft_len) ==
  LET nextP2 == NextP2(fft_len)
      f == P2FFTNew(nextP2 \div 2)
      exact == fft_len \in ExactNP2Lengths
  IN [bufferSize |-> nextP2,
      a |-> 2 * (fft_len - 1),
      chirpBuffer |-> IF exact THEN P2Transform(f, QZeros(nextP2), IChirp(fft_len), FALSE).out ELSE <<>>,
      buffer1 |-> IF exact THEN QZeros(nextP2) ELSE <<>>,
      buffer2 |-> IF exact THEN QZeros(nextP2) ELSE <<>>,
      outBuffer1 |-> IF exact THEN QZeros(nextP2) ELSE <<>>,
      outBuffer2 |-> IF exact THEN QZeros(nextP2) ELSE <<>>,
      slicedChirpBuffer |-> IF exact THEN SlicedChirp(fft_len) ELSE <<>>,
      f |-> f]

(* NP2FFT._transform *)
\* first loop: input times the sliced chirp, into _buffer1
RECURSIVE NP2MultiplyChirpAccumulate(_, _, _, _, _)
NP2MultiplyChirpAccumulate(ib1, input, sb, real, j) ==
  IF j >= ALen(sb) THEN ib1
  ELSE LET j2 == j + 1
           j3 == j \div 2
           re == IF real THEN QMul(Rd(input, j3), Rd(sb, j))
                 ELSE QSub(QMul(Rd(input, j), Rd(sb, j)), QMul(Rd(input, j2), Rd(sb, j2)))
           im == IF real THEN QMul(Rd(input, j3), Rd(sb, j2))
                 ELSE QAdd(QMul(Rd(input, j), Rd(sb, j2)), QMul(Rd(input, j2), Rd(sb, j)))
       IN NP2MultiplyChirpAccumulate(Wr(Wr(ib1, j, QAdd(Rd(ib1, j), re)), j2, QAdd(Rd(ib1, j2), im)),
                                     input, sb, real, j + 2)
RECURSIVE NP2MultiplyChirp(_, _, _, _, _)
NP2MultiplyChirp(ib1, input, sb, real, j) ==
  IF j >= ALen(sb) THEN ib1
  ELSE LET j2 == j + 1
           j3 == j \div 2
           re == IF real THEN QMul(Rd(input, j3), Rd(sb, j))
                 ELSE QSub(QMul(Rd(input, j), Rd(sb, j)), QMul(Rd(input, j2), Rd(sb, j2)))
           im == IF real THEN QMul(Rd(input, j3), Rd(sb, j2))
                 ELSE QAdd(QMul(Rd(input, j), Rd(sb, j2)), QMul(Rd(input, j2), Rd(sb, j)))
       IN NP2MultiplyChirp(Wr(Wr(ib1, j, re), j2, im), input, sb, real, j + 2)
\* second loop: pointwise product with the transformed chirp, into _buffer2
RECURSIVE NP2ConvolveAccumulate(_, _, _, _)
NP2ConvolveAccumulate(ib2, ob2, cb, j) ==
  IF j >= ALen(cb) THEN ib2
  ELSE LET j2 == j + 1
           re == QSub(QMul(Rd(ob2, j), Rd(cb, j)), QMul(Rd(ob2, j2), Rd(cb, j2)))
           im == QAdd(QMul(Rd(ob2, j), Rd(cb, j2)), QMul(Rd(ob2, j2), Rd(cb, j)))
       IN NP2ConvolveAccumulate(Wr(Wr(ib2, j, QAdd(Rd(ib2, j), re)), j2, QAdd(Rd(ib2, j2), im)),
                                ob2, cb, j + 2)
RECURSIVE NP2Convolve(_, _, _, _)
NP2Convolve(ib2, ob2, cb, j) ==
  IF j >= ALen(cb) THEN ib2
  ELSE LET j2 == j + 1
           re == QSub(QMul(Rd(ob2, j), Rd(cb, j)), QMul(Rd(ob2, j2), Rd(cb, j2)))
           im == QAdd(QMul(Rd(ob2, j), Rd(cb, j2)), QMul(Rd(ob2, j2), Rd(cb, j)))
       IN NP2Convolve(Wr(Wr(ib2, j, re), j2, im), ob2, cb, j + 2)
\* third loop: the shifted convolution times the sliced chirp, into the caller's output
RECURSIVE NP2WriteOutput(_, _, _, _, _)
NP2WriteOutput(output, ob3, sb, a, j) ==
  IF j >= ALen(ob3) THEN output
  ELSE LET a_real == Rd(ob3, j + a)
           a_imag == Rd(ob3, j + a + 1)
           b_real == Rd(sb, j)
           b_imag == Rd(sb, j + 1)
           re == QSub(QMul(a_real, b_real), QMul(a_imag, b_imag))
           im == QAdd(QMul(a_real, b_imag), QMul(a_imag, b_real))
       IN NP2WriteOutput(Wr(Wr(output, j, re), j + 1, im), ob3, sb, a, j + 2)
\* the four steps of _transform that write the plan's own buffers, each
\* giving the plan as the step leaves it
NP2FillBuffer1(plan, input, real) ==
  [plan EXCEPT !.buffer1 = NP2MultiplyChirp(plan.buffer1, input, plan.slicedChirpBuffer, real, 0)]
NP2ForwardInner(plan) ==
  [plan EXCEPT !.outBuffer1 = P2Transform(plan.f, plan.outBuffer1, plan.buffer1, FALSE).out]
NP2FillBuffer2(plan) ==
  [plan EXCEPT !.buffer2 = NP2Convolve(plan.buffer2, plan.outBuffer1, plan.chirpBuffer, 0)]
NP2InverseInner(plan) ==
  [plan EXCEPT !.outBuffer2 = P2InverseTransform(plan.f, plan.outBuffer2, plan.buffer2, FALSE).out]
NP2Finish(plan, output) ==
  [plan |-> plan,
   out |-> NP2WriteOutput(output, plan.outBuffer2, plan.slicedChirpBuffer, plan.a, 0),
   err |-> ""]
\* the plan and the output buffer as the call leaves them
NP2Transform(plan, output, input, real) ==
  NP2Finish(NP2InverseInner(NP2FillBuffer2(NP2ForwardInner(NP2FillBuffer1(plan, input, real)))), output)

(* FFT (facade) *)
FFTNewDoubleLength(fft_len) ==
  IF IsPowerOfTwo(fft_len)
  THEN [fft_length |-> fft_len, isPowerOfTwo |-> TRUE, fft |-> P2FFTNew(fft_len),
        outputBufferSize |-> 2 * fft_len]
  ELSE [fft_length |-> fft_len, isPowerOfTwo |-> FALSE, fft |-> NP2FFTNew(fft_len),
        outputBufferSize |-> 2 * fft_len]
FFTNew(fft_len) ==
  IF IsPowerOfTwo(fft_len)
  THEN [fft_length |-> fft_len, isPowerOfTwo |-> TRUE, fft |-> P2FFTNew(fft_len),
        outputBufferSize |-> 2 * fft_len]
  ELSE [fft_length |-> fft_len, isPowerOfTwo |-> FALSE, fft |-> NP2FFTNew(fft_len),
        outputBufferSize |-> NP2FFTNew(fft_len).bufferSize]

\* a method call on the inner plan object (this.fft.<op>): the plan, the output
\* buffer and the error after the call
NoSuchMethod == "TypeError: inverseTransform is not a function"
P2Returned(facade, r) == [facade |-> facade, out |-> r.out, err |-> r.err]
NP2Returned(facade, r) == [facade |-> [facade EXCEPT !.fft = r.plan], out |-> r.out, err |-> r.err]
PlanCall(facade, op, out, data, same) ==
  IF facade.isPowerOfTwo
  THEN P2Returned(facade,
         CASE op = "transform" -> P2Transform(facade.fft, out, data, same)
           [] op = "realTransform" -> P2RealTransform(facade.fft, out, data, same)
           [] op = "inverseTransform" -> P2InverseTransform(facade.fft, out, data, same))
  ELSE IF op = "inverseTransform" THEN [facade |-> facade, out |-> out, err |-> NoSuchMethod]
  ELSE NP2Returned(facade, NP2Transform(facade.fft, out, data, op = "realTransform"))
\* a method call on the FFT object itself, which has transform and realTransform only
FacadeCall(facade, op, out, data, same) ==
  IF op = "inverseTransform" THEN [facade |-> facade, out |-> out, err |-> NoSuchMethod]
  ELSE PlanCall(facade, op, out, data, same)

(* A caller of the FFT: it builds one FFT object of some length, allocates   *)
(* two buffers of outputBufferSize numbers, the first holding its input,    *)
(* and then calls the transforms, on the FFT object or on the plan object   *)
(* it holds (fft.fft), with any of its buffers as output and as input.      *)
MaxFftLength == 16
MaxFftCalls == 2
FftRamp(len, used, a, b) ==
  [j \in 0..(len - 1) |-> IF j < used THEN QInt(((a * j + b) % 3) - 1) ELSE QZero]
FftImpulse(len, p) == [j \in 0..(len - 1) |-> IF j = p THEN QInt(1) ELSE QZero]
FftInputs(len, used) ==
  {FftRamp(len, used, a, b) : a \in 1..2, b \in 0..1} \cup {FftImpulse(len, p) : p \in 0..1}
ExactLength(fft_len) == fft_len \in ExactP2Sizes \cup ExactNP2Lengths
FftOps == {"transform", "realTransform", "inverseTransform"}
FftBufferIds == {1, 2}

InitFft ==
  /\ fftLength \in 2..MaxFftLength
  /\ fftVia \in {"facade", "plan"}
  /\ fftPlan = <<>>
  /\ fftBufs = <<>>
  /\ fftCalls = <<>>
  /\ fftErr = ""
  /\ fftPc = "new"
  /\ OutsideFftIdle

\* new FFT(fft_length), then the caller's buffers
FftConstruct ==
  /\ fftPc = "new"
  /\ fftPlan' = FFTNew(fftLength)
  /\ IF ExactLength(fftLength)
     THEN /\ \E x \in FftInputs(FFTNew(fftLength).outputBufferSize, 2 * fftLength) :
               fftBufs' = <<x, QZeros(FFTNew(fftLength).outputBufferSize)>>
          /\ fftPc' = "ready"
     ELSE /\ fftBufs' = <<>>
          /\ fftPc' = "built"
  /\ UNCHANGED <<fftLength, fftVia, fftCalls, fftErr, outsideFft>>

\* one call op(fftBufs[o], fftBufs[i]); o = i passes the same buffer twice
FftCall(op, o, i) ==
  /\ fftPc = "ready"
  /\ Len(fftCalls) < MaxFftCalls
  /\ \E r \in {IF fftVia = "facade" THEN FacadeCall(fftPlan, op, fftBufs[o], fftBufs[i], o = i)
                ELSE PlanCall(fftPlan, op, fftBufs[o], fftBufs[i], o = i)} :
       /\ fftPlan' = r.facade
       /\ fftBufs' = [fftBufs EXCEPT ![o] = r.out]
       /\ fftErr' = r.err
       /\ fftPc' = IF r.err = "" THEN "ready" ELSE "error"
  /\ fftCalls' = Append(fftCalls, [op |-> op, out |-> o, inp |-> i, before |-> fftBufs])
  /\ UNCHANGED <<fftLength, fftVia, outsideFft>>

CallTransform == \E o, i \in FftBufferIds : FftCall("transform", o, i)
CallRealTransform == \E o, i \in FftBufferIds : FftCall("realTransform", o, i)
CallInverseTransform == \E o, i \in FftBufferIds : FftCall("inverseTransform", o, i)

NextFft == FftConstruct \/ CallTransform \/ CallRealTransform \/ CallInverseTransform

SpecFft == InitFft /\ [][NextFft]_vars

----------------------------------------------------------------------------
(* mel_filter_bank on exact rationals.                                      *)
(*                                                                         *)
(* A number is the fraction [n, d] in lowest terms with d > 0.  The calls   *)
(* explored use mel_scale = 'slaney' with all frequencies at most 1000 Hz,  *)
(* where both conversions are the linear branch (3 f / 200 and 200 m / 3);  *)
(* the logarithmic scales are outside the number domain.                    *)
RECURSIVE Gcd(_, _)
Gcd(a, b) == IF b = 0 THEN a ELSE Gcd(b, a % b)
Rat(n, d) ==
  LET sn == IF d < 0 THEN -n ELSE n
      sd == Abs(d)
      g == Gcd(Abs(sn), sd)
  IN [n |-> sn \div g, d |-> sd \div g]
RatInt(v) == [n |-> v, d |-> 1]
RatAdd(x, y) == Rat(x.n * y.d + y.n * x.d, x.d * y.d)
RatSub(x, y) == Rat(x.n * y.d - y.n * x.d, x.d * y.d)
RatMul(x, y) == Rat(x.n * y.n, x.d * y.d)
RatDiv(x, y) == Rat(x.n * y.d, x.d * y.n)
RatNeg(x) == [n |-> -x.n, d |-> x.d]
RatLess(x, y) == x.n * y.d < y.n * x.d
RatMin(x, y) == IF RatLess(y, x) THEN y ELSE x
RatMax(x, y) == IF RatLess(x, y) THEN y ELSE x

\* HERTZ_TO_MEL_MAPPING.slaney / MEL_TO_HERTZ_MAPPING.slaney, linear branch
MinLogHertz == 1000
HertzToMelSlaney(freq) == RatDiv(RatMul(RatInt(3), freq), RatInt(200))
MelToHertzSlaney(mels) == RatDiv(RatMul(RatInt(200), mels), RatInt(3))
KnownMelScales == {"htk", "kaldi", "slaney"}
MelScaleError(mel_scale) ==
  IF mel_scale \in KnownMelScales THEN "" ELSE "mel_scale should be one of \"htk\", \"slaney\" or \"kaldi\"."

\* linspace(start, end, num)
Linspace(start, end, num) ==
  LET step == RatDiv(RatSub(end, start), RatInt(num - 1))
  IN [i \in 0..(num - 1) |-> RatAdd(start, RatMul(step, RatInt(i)))]

\* _create_triangular_filter_bank: rows 0..numFreqs-1, each over the bins 0..len-1
CreateTriangularFilterBankNoClamp(fft_freqs, filter_freqs) ==
  LET filter_diff == [i \in 0..(ALen(filter_freqs) - 2) |-> RatSub(filter_freqs[i + 1], filter_freqs[i])]
      slope(j, i) == RatSub(filter_freqs[i], fft_freqs[j])
      numFreqs == ALen(filter_freqs) - 2
  IN [i \in 0..(numFreqs - 1) |->
        [j \in 0..(ALen(fft_freqs) - 1) |->
           LET down == RatDiv(RatNeg(slope(j, i)), filter_diff[i])
               up == RatDiv(slope(j, i + 2), filter_diff[i + 1])
           IN RatMin(down, up)]]
CreateTriangularFilterBank(fft_freqs, filter_freqs) ==
  LET filter_diff == [i \in 0..(ALen(filter_freqs) - 2) |-> RatSub(filter_freqs[i + 1], filter_freqs[i])]
      slope(j, i) == RatSub(filter_freqs[i], fft_freqs[j])
      numFreqs == ALen(filter_freqs) - 2
  IN [i \in 0..(numFreqs - 1) |->
        [j \in 0..(ALen(fft_freqs) - 1) |->
           LET down == RatDiv(RatNeg(slope(j, i)), filter_diff[i])
               up == RatDiv(slope(j, i + 2), filter_diff[i + 1])
           IN RatMax(RatInt(0), RatMin(down, up))]]

\* the slaney normalisation loop of mel_filter_bank
SlaneyNorm(mel_filters, filter_freqs) ==
  [i \in DOMAIN mel_filters |->
     LET enorm == RatDiv(RatInt(2), RatSub(filter_freqs[i + 2], filter_freqs[i]))
     IN [j \in DOMAIN mel_filters[i] |-> RatMul(mel_filters[i][j], enorm)]]

\* the frequencies mel_filter_bank hands to _create_triangular_filter_bank
MelFilterFreqs(a) ==
  LET mel_min == HertzToMelSlaney(RatInt(a.min_frequency))
      mel_max == HertzToMelSlaney(RatInt(a.max_frequency))
      mel_freqs == Linspace(mel_min, mel_max, a.num_mel_filters + 2)
  IN IF a.triangularize_in_mel_space THEN mel_freqs
     ELSE [i \in DOMAIN mel_freqs |-> MelToHertzSlaney(mel_freqs[i])]
MelFftFreqs(a) ==
  IF a.triangularize_in_mel_space
  THEN LET fft_bin_width == Rat(a.sampling_rate, a.num_frequency_bins * 2)
       IN [i \in 0..(a.num_frequency_bins - 1) |-> HertzToMelSlaney(RatMul(RatInt(i), fft_bin_width))]
  ELSE Linspace(RatInt(0), RatInt(a.sampling_rate \div 2), a.num_frequency_bins)

\* mel_filter_bank: the matrix returned and the error thrown ("" if none)
MelFilterBank(a) ==
  IF a.norm # "null" /\ a.norm # "slaney"
  THEN [filters |-> <<>>, err |-> "norm must be one of null or \"slaney\""]
  ELSE IF MelScaleError(a.mel_scale) # "" THEN [filters |-> <<>>, err |-> MelScaleError(a.mel_scale)]
  ELSE LET bank == CreateTriangularFilterBank(MelFftFreqs(a), MelFilterFreqs(a))
       IN [filters |-> IF a.norm = "slaney" THEN SlaneyNorm(bank, MelFilterFreqs(a)) ELSE bank,
           err |-> ""]

MaxMelBins == 4
MaxMelFilters == 3
MelCalls ==
  [num_frequency_bins : 2..MaxMelBins, num_mel_filters : 1..MaxMelFilters,
   min_frequency : {0, 100}, max_frequency : {400, MinLogHertz}, sampling_rate : {800, 1600, 2000},
   norm : {"null", "slaney", "l2"}, mel_scale : {"slaney", "bark"},
   triangularize_in_mel_space : BOOLEAN]

InitMel ==
  /\ melArgs \in MelCalls
  /\ melFilters = <<>>
  /\ melErr = ""
  /\ melPc = "call"
  /\ OutsideMelIdle

CallMelFilterBank ==
  /\ melPc = "call"
  /\ melFilters' = MelFilterBank(melArgs).filters
  /\ melErr' = MelFilterBank(melArgs).err
  /\ melPc' = IF MelFilterBank(melArgs).err = "" THEN "done" ELSE "error"
  /\ UNCHANGED <<melArgs, outsideMel>>

NextMel == CallMelFilterBank

SpecMel == InitMel /\ [][NextMel]_vars

----------------------------------------------------------------------------
(* window_function.                                                         *)
(*                                                                         *)
(* A sample is [t, n, d, k, m, p].  t = "rat" is the fraction n / d;        *)
(* t = "cos" is n / d - (1 - n / d) cos(2 pi k / m) for an angle whose      *)
(* cosine is irrational and is left unevaluated.  p is the exponent the     *)
(* sample is raised to, in hundredths (100, or 85 for povey).               *)
Sample(x) == [t |-> "rat", n |-> x.n, d |-> x.d, k |-> 0, m |-> 1, p |-> 100]
SampleOne == Sample(RatInt(1))
SampleZero == Sample(RatInt(0))

\* Math.cos(2 pi k / m) where it is rational
RationalTurns == {1, 2, 3, 4, 6}
CosTurn(k, m) ==
  LET mm == m \div Gcd(k, m)
  IN CASE mm = 1 -> RatInt(1)
       [] mm = 2 -> RatInt(-1)
       [] mm = 3 -> Rat(-1, 2)
       [] mm = 4 -> RatInt(0)
       [] mm = 6 -> Rat(1, 2)

\* generalized_cosine_window(M, a_0)
GeneralizedCosineWindow(M, a_0) ==
  IF M < 1 THEN <<>>
  ELSE IF M = 1 THEN [i \in 0..0 |-> SampleOne]
  ELSE [i \in 0..(M - 1) |->
          IF (M - 1) \div Gcd(i, M - 1) \in RationalTurns
          THEN Sample(RatSub(a_0, RatMul(RatSub(RatInt(1), a_0), CosTurn(i, M - 1))))
          ELSE [t |-> "cos", n |-> a_0.n, d |-> a_0.d,
                k |-> i \div Gcd(i, M - 1), m |-> (M - 1) \div Gcd(i, M - 1), p |-> 100]]
hanning(M) == GeneralizedCosineWindow(M, Rat(1, 2))
hamming(M) == GeneralizedCosineWindow(M, Rat(54, 100))

\* Math.pow(x, 0.85)
Pow085(x) == IF x = SampleZero \/ x = SampleOne THEN x ELSE [x EXCEPT !.p = 85]

\* Float64Array.prototype.subarray(0, end)
SubarrayWhole(w, end) == w
SubarrayTo(w, end) ==
  LET final == IF end < 0
               THEN (IF ALen(w) + end > 0 THEN ALen(w) + end ELSE 0)
               ELSE Min2(end, ALen(w))
  IN [i \in 0..(final - 1) |-> w[i]]

KnownWindows == {"boxcar", "hann", "hann_window", "hamming", "povey"}
\* window_function(window_length, name, {periodic, frame_length, center}):
\* the window returned and the error thrown ("" if none)
WindowFunction(a) ==
  LET length == IF a.periodic THEN a.window_length + 1 ELSE a.window_length
      made == CASE a.name = "boxcar" -> [i \in 0..(length - 1) |-> SampleOne]
                [] a.name \in {"hann", "hann_window"} -> hanning(length)
                [] a.name = "hamming" -> hamming(length)
                [] a.name = "povey" -> [i \in DOMAIN hanning(length) |-> Pow085(hanning(length)[i])]
                [] OTHER -> <<>>
      window == IF a.periodic THEN SubarrayTo(made, a.window_length) ELSE made
  IN IF a.name \notin KnownWindows THEN [window |-> <<>>, err |-> "Unknown window type " \o a.name \o "."]
     ELSE IF a.name = "boxcar" /\ length < 0
     THEN [window |-> <<>>, err |-> "RangeError: Invalid typed array length"]
     ELSE IF IsNull(a.frame_length) THEN [window |-> window, err |-> ""]
     ELSE IF a.window_length > a.frame_length[1]
     THEN [window |-> <<>>,
           err |-> "Length of the window (" \o ToString(a.window_length)
                     \o ") may not be larger than frame_length ("
                     \o ToString(a.frame_length[1]) \o ")"]
     ELSE [window |-> window, err |-> ""]

MinWinLen == -2
MaxWinLen == 4
MaxWinFrame == 5
WinCalls ==
  [window_length : MinWinLen..MaxWinLen, name : KnownWindows \cup {"blackman"},
   periodic : BOOLEAN, frame_length : {<<>>} \cup {<<f>> : f \in 0..MaxWinFrame},
   center : BOOLEAN]

InitWin ==
  /\ winArgs \in WinCalls
  /\ winOut = <<>>
  /\ winErr = ""
  /\ winPc = "call"
  /\ OutsideWinIdle

CallWindowFunction ==
  /\ winPc = "call"
  /\ winOut' = WindowFunction(winArgs).window
  /\ winErr' = WindowFunction(winArgs).err
  /\ winPc' = IF WindowFunction(winArgs).err = "" THEN "done" ELSE "error"
  /\ UNCHANGED <<winArgs, outsideWin>>

NextWin == CallWindowFunction

SpecWin == InitWin /\ [][NextWin]_vars

----------------------------------------------------------------------------
(* PriorityQueue with the default comparator (a, b) => a > b.               *)
(* _heap is a function on 0..size-1.                                        *)
PqParent(i) == ((i + 1) \div 2) - 1
PqLeft(i) == (i * 2) + 1
PqRight(i) == (i + 1) * 2
PqComparator(a, b) == a > b
PqSwap(heap, i, j) == [heap EXCEPT ![i] = heap[j], ![j] = heap[i]]

\* _siftUpFrom(node)
RECURSIVE PqSiftUpFrom(_, _)
PqSiftUpFrom(heap, node) ==
  IF node > 0 /\ PqComparator(heap[node], heap[PqParent(node)])
  THEN PqSiftUpFrom(PqSwap(heap, node, PqParent(node)), PqParent(node))
  ELSE heap

\* Math.floor(Math.log2(size)) for size >= 1
RECURSIVE FloorLog2(_)
FloorLog2(size) == IF size < 2 THEN 0 ELSE 1 + FloorLog2(size \div 2)
\* _smallest(): 2 ** Math.floor(Math.log2(size)) - 1; log2(0) is -Infinity
PqSmallest(size) == IF size = 0 THEN -1 ELSE 2 ^ FloorLog2(size) - 1

\* the body of extend's loop for one value
PqOffer(heap, maxSize, value) ==
  IF ALen(heap) < maxSize
  THEN PqSiftUpFrom([i \in 0..ALen(heap) |-> IF i = ALen(heap) THEN value ELSE heap[i]], ALen(heap))
  ELSE LET smallest == PqSmallest(ALen(heap))
       IN IF smallest \in DOMAIN heap /\ PqComparator(value, heap[smallest])
          THEN PqSiftUpFrom([heap EXCEPT ![smallest] = value], smallest)
          ELSE heap

\* extend(values)
RECURSIVE PqExtend(_, _, _)
PqExtend(heap, maxSize, values) ==
  IF values = <<>> THEN heap
  ELSE PqExtend(PqOffer(heap, maxSize, Head(values)), maxSize, Tail(values))

MaxPqSize == 3
MaxPqValue == 4
MaxPqOffers == 5
PqValues == 1..MaxPqValue
PqBatches == {<<>>} \cup {<<v>> : v \in PqValues} \cup {<<v, w>> : v \in PqValues, w \in PqValues}
RECURSIVE PqRecord(_, _)
PqRecord(offered, values) ==
  IF values = <<>> THEN offered
  ELSE PqRecord([offered EXCEPT ![Head(values)] = @ + 1], Tail(values))
PqOfferedCount == LET S[v \in 0..MaxPqValue] == IF v = 0 THEN 0 ELSE pqOffered[v] + S[v - 1]
                  IN S[MaxPqValue]

\* the last call made on the queue: its name, the value it returned (<<>> for
\* undefined) and the heap it found
PqCalled(op, ret, before) == [op |-> op, ret |-> ret, before |-> before]

\* new PriorityQueue(undefined, maxSize)
InitPq ==
  /\ pqMaxSize \in 1..MaxPqSize
  /\ pqHeap = <<>>
  /\ pqOffered = [v \in PqValues |-> 0]
  /\ pqLast = PqCalled("new", <<>>, <<>>)
  /\ OutsidePqIdle

\* push(value)
PqPush(value) ==
  /\ PqOfferedCount < MaxPqOffers
  /\ pqHeap' = PqExtend(pqHeap, pqMaxSize, <<value>>)
  /\ pqOffered' = PqRecord(pqOffered, <<value>>)
  /\ pqLast' = PqCalled("push", <<ALen(pqHeap')>>, pqHeap)
  /\ UNCHANGED <<pqMaxSize, outsidePq>>

\* extend(values)
PqExtendCall(values) ==
  /\ PqOfferedCount + Len(values) <= MaxPqOffers
  /\ pqHeap' = PqExtend(pqHeap, pqMaxSize, values)
  /\ pqOffered' = PqRecord(pqOffered, values)
  /\ pqLast' = PqCalled("extend", <<ALen(pqHeap')>>, pqHeap)
  /\ UNCHANGED <<pqMaxSize, outsidePq>>

NextPq ==
  \/ \E value \in PqValues : PqPush(value)
  \/ \E values \in PqBatches : PqExtendCall(values)

SpecPq == InitPq /\ [][NextPq]_vars

\* _siftDown(), from node 0 in the code
RECURSIVE PqSiftDownFromNoRight(_, _)
PqSiftDownFromNoRight(heap, node) ==
  IF PqLeft(node) < ALen(heap) /\ PqComparator(heap[PqLeft(node)], heap[node])
  THEN PqSiftDownFromNoRight(PqSwap(heap, node, PqLeft(node)), PqLeft(node))
  ELSE heap
RECURSIVE PqSiftDownFrom(_, _)
PqSiftDownFrom(heap, node) ==
  IF \/ PqLeft(node) < ALen(heap) /\ PqComparator(heap[PqLeft(node)], heap[node])
     \/ PqRight(node) < ALen(heap) /\ PqComparator(heap[PqRight(node)], heap[node])
  THEN LET maxChild == IF PqRight(node) < ALen(heap)
                            /\ PqComparator(heap[PqRight(node)], heap[PqLeft(node)])
                       THEN PqRight(node) ELSE PqLeft(node)
       IN PqSiftDownFrom(PqSwap(heap, node, maxChild), maxChild)
  ELSE heap
\* peek(): this._heap[0]
PqPeek(heap) == IF 0 \in DOMAIN heap THEN <<heap[0]>> ELSE <<>>
\* pop(): the heap it leaves
PqPopped(heap) ==
  LET bottom == ALen(heap) - 1
      swapped == IF bottom > 0 THEN PqSwap(heap, 0, bottom) ELSE heap
  IN PqSiftDownFrom([i \in 0..(bottom - 1) |-> swapped[i]], 0)
\* replace(value): the heap it leaves; on an empty queue _heap[0] = value grows the array
PqReplaced(heap, value) ==
  PqSiftDownFrom([i \in DOMAIN heap \cup {0} |-> IF i = 0 THEN value ELSE heap[i]], 0)

\* new PriorityQueue(undefined, maxSize) with any maxSize from 0
InitPqOps ==
  /\ pqMaxSize \in 0..MaxPqSize
  /\ pqHeap = <<>>
  /\ pqOffered = [v \in PqValues |-> 0]
  /\ pqLast = PqCalled("new", <<>>, <<>>)
  /\ OutsidePqIdle

\* push(value) and extend(values) on a queue whose offers are not recorded
PqPushOnly(value) ==
  /\ pqHeap' = PqExtend(pqHeap, pqMaxSize, <<value>>)
  /\ pqLast' = PqCalled("push", <<ALen(pqHeap')>>, pqHeap)
  /\ UNCHANGED <<pqMaxSize, pqOffered, outsidePq>>
PqExtendOnly(values) ==
  /\ pqHeap' = PqExtend(pqHeap, pqMaxSize, values)
  /\ pqLast' = PqCalled("extend", <<ALen(pqHeap')>>, pqHeap)
  /\ UNCHANGED <<pqMaxSize, pqOffered, outsidePq>>

\* pop()
PqPop ==
  /\ pqHeap' = PqPopped(pqHeap)
  /\ pqLast' = PqCalled("pop", PqPeek(pqHeap), pqHeap)
  /\ UNCHANGED <<pqMaxSize, pqOffered, outsidePq>>

\* replace(value)
PqReplace(value) ==
  /\ pqHeap' = PqReplaced(pqHeap, value)
  /\ pqLast' = PqCalled("replace", PqPeek(pqHeap), pqHeap)
  /\ UNCHANGED <<pqMaxSize, pqOffered, outsidePq>>

NextPqOps ==
  \/ \E value \in PqValues : PqPushOnly(value)
  \/ \E values \in PqBatches : PqExtendOnly(values)
  \/ PqPop
  \/ \E value \in PqValues : PqReplace(value)

SpecPqOps == InitPqOps /\ [][NextPqOps]_vars

----------------------------------------------------------------------------
(* TTSEngine.splitTextIntoChunks (src/engines/tts-engine.ts)                 *)
(* A string is a sequence of one-character strings.                          *)

SentenceEnds == {".", "!", "?"}
ClauseSeparators == {",", ";", ":"}
\* the first position from p on whose character is not in S (Len + 1 if none)
RECURSIVE SkipIn(_, _, _)
SkipIn(text, p, S) ==
  IF p <= Len(text) /\ text[p] \in S THEN SkipIn(text, p + 1, S) ELSE p
\* the first position from p on whose character is in S (Len + 1 if none)
RECURSIVE SkipNotIn(_, _, _)
SkipNotIn(text, p, S) ==
  IF p <= Len(text) /\ text[p] \notin S THEN SkipNotIn(text, p + 1, S) ELSE p
\* text.match(/[^.!?]+[.!?]+/g) from position p: each maximal run of other
\* characters that is followed by sentence ends, with all of those ends
RECURSIVE MatchSentencesFrom(_, _)
MatchSentencesFrom(text, p) ==
  IF p > Len(text) THEN <<>>
  ELSE IF text[p] \in SentenceEnds THEN MatchSentencesFrom(text, p + 1)
  ELSE IF SkipNotIn(text, p, SentenceEnds) > Len(text) THEN <<>>
  ELSE <<SubSeq(text, p, SkipIn(text, SkipNotIn(text, p, SentenceEnds), SentenceEnds) - 1)>>
         \o MatchSentencesFrom(text, SkipIn(text, SkipNotIn(text, p, SentenceEnds), SentenceEnds))
\* text.match(...) || [text]
Sentences(text) ==
  IF MatchSentencesFrom(text, 1) = <<>> THEN <<text>> ELSE MatchSentencesFrom(text, 1)

\* String.prototype.split on single-character separators
RECURSIVE SplitFrom(_, _, _, _)
SplitFrom(s, p, piece, seps) ==
  IF p > Len(s) THEN <<piece>>
  ELSE IF s[p] \in seps THEN <<piece>> \o SplitFrom(s, p + 1, <<>>, seps)
  ELSE SplitFrom(s, p + 1, Append(piece, s[p]), seps)
Split(s, seps) == SplitFrom(s, 1, <<>>, seps)

\* the inner loop over clauses: chunks and currentChunk after clause k and on
RECURSIVE ClauseLoop(_, _, _, _, _)
ClauseLoop(chunks, currentChunk, clauses, k, maxChunkLength) ==
  IF k > Len(clauses) THEN [chunks |-> chunks, currentChunk |-> currentChunk]
  ELSE IF Len(currentChunk) + Len(clauses[k]) > maxChunkLength /\ Len(currentChunk) > 0
  THEN ClauseLoop(Append(chunks, currentChunk), clauses[k], clauses, k + 1, maxChunkLength)
  ELSE ClauseLoop(chunks, currentChunk \o clauses[k], clauses, k + 1, maxChunkLength)
\* the first half of the loop body: the sentence is added or starts a new chunk
AddSentence(chunks, currentChunk, sentence, maxChunkLength) ==
  IF Len(currentChunk) + Len(sentence) > maxChunkLength /\ Len(currentChunk) > 0
  THEN [chunks |-> Append(chunks, currentChunk), currentChunk |-> sentence]
  ELSE [chunks |-> chunks, currentChunk |-> currentChunk \o sentence]
\* the second half: a chunk over the limit is split at clause boundaries
SplitAtClauses(st, maxChunkLength) ==
  IF Len(st.currentChunk) > maxChunkLength
  THEN ClauseLoop(st.chunks, <<>>, Split(st.currentChunk, ClauseSeparators), 1, maxChunkLength)
  ELSE st

\* the hard split of one chunk at spaces
RECURSIVE HardLoop(_, _, _, _, _)
HardLoop(hardChunks, currentHardChunk, words, k, maxChunkLength) ==
  IF k > Len(words)
  THEN (IF currentHardChunk # <<>> THEN Append(hardChunks, currentHardChunk) ELSE hardChunks)
  ELSE IF Len(currentHardChunk) + Len(words[k]) + 1 > maxChunkLength
  THEN HardLoop(Append(hardChunks, currentHardChunk), words[k], words, k + 1, maxChunkLength)
  ELSE HardLoop(hardChunks,
                currentHardChunk \o (IF currentHardChunk # <<>> THEN <<" ">> ELSE <<>>) \o words[k],
                words, k + 1, maxChunkLength)
HardSplit(chunk, maxChunkLength) ==
  IF Len(chunk) <= maxChunkLength THEN <<chunk>>
  ELSE HardLoop(<<>>, <<>>, Split(chunk, {" "}), 1, maxChunkLength)
\* chunks.flatMap(...)
RECURSIVE FlatMapHardSplit(_, _, _)
FlatMapHardSplit(chunks, k, maxChunkLength) ==
  IF k > Len(chunks) THEN <<>>
  ELSE HardSplit(chunks[k], maxChunkLength) \o FlatMapHardSplit(chunks, k + 1, maxChunkLength)

(* One call of splitTextIntoChunks: any text of up to MaxTextLen characters  *)
(* over a letter, the space, a sentence end and a clause separator, with     *)
(* any limit from 1 to MaxChunkLimit.                                        *)
MaxTextLen == 5
MaxChunkLimit == 3
TtsAlphabet == {"a", " ", ".", ","}
TtsTexts == UNION {[1..n -> TtsAlphabet] : n \in 0..MaxTextLen}

InitTts ==
  /\ ttsText \in TtsTexts
  /\ ttsMax \in 1..MaxChunkLimit
  /\ ttsPc = "start"
  /\ ttsSentences = <<>>
  /\ ttsNext = 1
  /\ ttsChunks = <<>>
  /\ ttsCurrent = <<>>
  /\ ttsResult = <<>>
  /\ OutsideTtsIdle

\* line 141: the sentences of the text
TtsMatch ==
  /\ ttsPc = "start"
  /\ ttsSentences' = Sentences(ttsText)
  /\ ttsPc' = "sentences"
  /\ UNCHANGED <<ttsText, ttsMax, ttsNext, ttsChunks, ttsCurrent, ttsResult, outsideTts>>

\* lines 144-168: one iteration of the loop over the sentences
TtsSentence ==
  /\ ttsPc = "sentences"
  /\ ttsNext <= Len(ttsSentences)
  /\ \E st \in {SplitAtClauses(AddSentence(ttsChunks, ttsCurrent, ttsSentences[ttsNext], ttsMax), ttsMax)} :
       /\ ttsChunks' = st.chunks
       /\ ttsCurrent' = st.currentChunk
  /\ ttsNext' = ttsNext + 1
  /\ UNCHANGED <<ttsText, ttsMax, ttsPc, ttsSentences, ttsResult, outsideTts>>

\* lines 170-173: the remaining text becomes the last chunk
TtsRemaining ==
  /\ ttsPc = "sentences"
  /\ ttsNext > Len(ttsSentences)
  /\ ttsChunks' = IF Len(ttsCurrent) > 0 THEN Append(ttsChunks, ttsCurrent) ELSE ttsChunks
  /\ ttsPc' = "chunked"
  /\ UNCHANGED <<ttsText, ttsMax, ttsSentences, ttsNext, ttsCurrent, ttsResult, outsideTts>>

\* lines 175-200: the hard-splitting fallback and the return
TtsHardSplit ==
  /\ ttsPc = "chunked"
  /\ ttsResult' = FlatMapHardSplit(ttsChunks, 1, ttsMax)
  /\ ttsPc' = "done"
  /\ UNCHANGED <<ttsText, ttsMax, ttsSentences, ttsNext, ttsChunks, ttsCurrent, outsideTts>>

NextTts == TtsMatch \/ TtsSentence \/ TtsRemaining \/ TtsHardSplit

SpecTts == InitTts /\ [][NextTts]_vars

----------------------------------------------------------------------------
(* SqliteStorage and IndexedDBStorage (src/core/database/implementation)     *)
(* One storage instance and the operations called on it without awaiting     *)
(* each other.  An open request is numbered in the order of the              *)
(* indexedDB.open calls and the connection it delivers carries its number;   *)
(* 0 stands for null.                                                        *)

StorageKinds == {"sqlite", "indexeddb"}
StorageOps == {"store", "get", "getAll", "update", "delete", "clear"}
NoConnection == 0
ByConstructor == 0
MaxStorageOps == 2
MaxStorageCloses == 2

\* indexedDB.open(...) called on behalf of owner: one more pending request
OpenRequest(reqs, owner) == Append(reqs, [owner |-> owner, state |-> "pending"])
\* SqliteStorage.ensureDbReady / IndexedDBStorage.openDatabase as far as they
\* run synchronously: whether a new open request is issued
NeedsOpen(db) == db = NoConnection
\* the connection openDatabase resolves with at once (IndexedDBStorage, line 22);
\* SqliteStorage's operations read this.db when they start their transaction
ResolvedNow(kind, db) == IF kind = "indexeddb" THEN db ELSE NoConnection
\* the connection an operation uses for its transaction
UsedConnection(kind, db, op) == IF kind = "sqlite" THEN db ELSE op.db

InitSto ==
  /\ stoKind \in StorageKinds
  /\ stoDb = NoConnection
  /\ stoReqs = IF stoKind = "sqlite" THEN OpenRequest(<<>>, ByConstructor) ELSE <<>>
  /\ stoOps = <<>>
  /\ stoCloses = 0
  /\ stoLast = "new"
  /\ OutsideStoIdle

\* store / get / getAll / update / delete / clear up to their first await
StoCall(name) ==
  /\ Len(stoOps) < MaxStorageOps
  /\ IF NeedsOpen(stoDb)
     THEN /\ stoReqs' = OpenRequest(stoReqs, Len(stoOps) + 1)
          /\ stoOps' = Append(stoOps, [name |-> name, pc |-> "opening", db |-> NoConnection])
     ELSE /\ stoReqs' = stoReqs
          /\ stoOps' = Append(stoOps, [name |-> name, pc |-> "ready", db |-> ResolvedNow(stoKind, stoDb)])
  /\ stoLast' = "call"
  /\ UNCHANGED <<stoKind, stoDb, stoCloses, outsideSto>>

\* request.onsuccess: this.db = request.result; resolve
StoOpenSuccess(r) ==
  /\ stoReqs[r].state = "pending"
  /\ stoReqs' = [stoReqs EXCEPT ![r].state = "open"]
  /\ stoDb' = r
  /\ stoOps' = IF stoReqs[r].owner = ByConstructor THEN stoOps
               ELSE [stoOps EXCEPT ![stoReqs[r].owner].pc = "ready",
                                   ![stoReqs[r].owner].db = ResolvedNow(stoKind, r)]
  /\ stoLast' = "onsuccess"
  /\ UNCHANGED <<stoKind, stoCloses, outsideSto>>

\* request.onerror: reject
StoOpenError(r) ==
  /\ stoReqs[r].state = "pending"
  /\ stoReqs' = [stoReqs EXCEPT ![r].state = "error"]
  /\ stoOps' = IF stoReqs[r].owner = ByConstructor THEN stoOps
               ELSE [stoOps EXCEPT ![stoReqs[r].owner].pc = "failed"]
  /\ stoLast' = "onerror"
  /\ UNCHANGED <<stoKind, stoDb, stoCloses, outsideSto>>

\* the rest of an operation: its transaction on the connection, which throws
\* if there is none or it has been closed
StoTransact(o) ==
  /\ stoOps[o].pc = "ready"
  /\ \E conn \in {UsedConnection(stoKind, stoDb, stoOps[o])} :
       stoOps' = [stoOps EXCEPT ![o].pc =
                    IF conn # NoConnection /\ stoReqs[conn].state = "open" THEN "done" ELSE "failed"]
  /\ stoLast' = "transaction"
  /\ UNCHANGED <<stoKind, stoDb, stoReqs, stoCloses, outsideSto>>

\* close()
StoClose ==
  /\ stoCloses < MaxStorageCloses
  /\ stoCloses' = stoCloses + 1
  /\ IF stoDb # NoConnection
     THEN stoReqs' = [stoReqs EXCEPT ![stoDb].state = "closed"] /\ stoDb' = NoConnection
     ELSE UNCHANGED <<stoReqs, stoDb>>
  /\ stoLast' = "close"
  /\ UNCHANGED <<stoKind, stoOps, outsideSto>>

NextSto ==
  \/ \E name \in StorageOps : StoCall(name)
  \/ \E r \in DOMAIN stoReqs : StoOpenSuccess(r)
  \/ \E r \in DOMAIN stoReqs : StoOpenError(r)
  \/ \E o \in DOMAIN stoOps : StoTransact(o)
  \/ StoClose

SpecSto == InitSto /\ [][NextSto]_vars

----------------------------------------------------------------------------
(* Properties *)

PowerSupported(a) == ~IsNull(a.power) /\ Val(a.power) \in {1, 2}
AfterAllocate == fft # Null
AfterFrameLoop == pc \in {"powered", "projected", "floored", "done"}
Max2(a, b) == IF a > b THEN a ELSE b

\* C1: for power 1 and 2 the value handed to the mel projection is |X[k]|^power,
\* i.e. its square equals (re^2 + im^2)^power, for every cell of the magnitude matrix.
C1Claim ==
  [][(pc = "frames" /\ pc' = "powered" /\ PowerSupported(args))
       => \A p \in DOMAIN transposedMagnitudeData :
             transposedMagnitudeData'[p] ^ 2 = transposedMagnitudeData[p] ^ Val(args.power)]_vars

\* C2: the dB conversion maps every element x to
\* factor*log10(max(min_value, x)) - factor*log10(max(min_value, reference)).
DbFactor == IF dbPc = "amplitude_db" THEN 20 ELSE 10
DbClaimed(x, factor, reference, min_value) ==
  Lg(factor, LinMax(min_value, x), Log10Int(LinMax(min_value, Int2Lin(reference)).n))
C2Claim ==
  (dbPc \in {"amplitude_db", "power_db"} /\ IsNull(dbArgs.rangeSteps))
    => \A p \in DOMAIN dbBuf :
         NumEq(dbBuf[p], DbClaimed(dbArgs.spectrogram[p], DbFactor, dbArgs.reference, dbArgs.min_value))

\* C3: an all-zero waveform with mel_floor = 1e-10 and log_mel = 'dB' (amplitude, factor 20)
\* gives the constant 20*log10(1e-10) - 20*log10(max(1e-10, reference)) in every cell.
AllZero(w) == \A j \in DOMAIN w : w[j] = 0
C3Claim ==
  (pc = "done" /\ args.log_mel = "dB" /\ args.power = Some(1) /\ AllZero(args.waveform)
     /\ args.mel_floor = Tiny /\ args.min_value = Tiny /\ IsNull(args.db_range))
    => \A p \in DOMAIN mel_spec.data :
         NumEq(mel_spec.data[p], DbClaimed(Tiny, 20, args.reference, Tiny))

\* C4: with db_range = R > 0, every element of the converted buffer is at least
\* (any other element) - R, so max - min <= R.
NumGeq(a, b) == a.t # "nan" /\ b.t # "nan" /\ ~NumGreater(b, a)
C4Claim ==
  (dbPc \in {"amplitude_db", "power_db"} /\ ~IsNull(dbArgs.rangeSteps))
    => \A p, q \in DOMAIN dbBuf :
         NumGeq(dbBuf[p], NumMinus(dbBuf[q], Val(dbArgs.rangeSteps) * DbFactor))

\* C5: without frame limits the frame count is 1 + floor((padded_length - frame_length) / hop_length),
\* padded_length = length (+ 2*(floor((fft_length-1)/2)+1) when centered); that many frames are
\* transformed and returned; 16000 / 400 / 160 uncentered gives 98.
PaddedLength(a) ==
  ALen(a.waveform)
    + (IF a.center THEN 2 * (((EffectiveFft(a.frame_length, a.fft_length) - 1) \div 2) + 1) ELSE 0)
NaturalFrames(a) == 1 + ((PaddedLength(a) - a.frame_length) \div a.hop_length)
NoFrameLimits(a) == IsNull(a.min_num_frames) /\ IsNull(a.max_num_frames)
FramesOfTensor == IF args.transpose THEN mel_spec.dims[1] ELSE mel_spec.dims[2]
C5Theorem ==
  /\ (AfterAllocate /\ NoFrameLimits(args)) => num_frames = NaturalFrames(args) /\ d1 = num_frames
  /\ (AfterFrameLoop /\ NoFrameLimits(args)) => i_frame = NaturalFrames(args)
  /\ (pc = "done" /\ NoFrameLimits(args)) => FramesOfTensor = NaturalFrames(args)
  /\ NumFrames(16000, 400, 160) = 98
C5Witness ==
  pc = "done" /\ NoFrameLimits(args) /\ args.center /\ args.hop_length = 2 /\ i_frame = 4

\* C6: frame limits.  n = natural count raised to min_num_frames; max given and n >= max:
\* frames 0..max-1 computed, output has max frames; n < max: n frames computed, output has
\* max frames if do_pad (the padding columns of the magnitude matrix stay zero), else n.
ClaimedFrames(a) ==
  IF ~IsNull(a.min_num_frames) /\ NaturalFrames(a) < Val(a.min_num_frames)
  THEN Val(a.min_num_frames) ELSE NaturalFrames(a)
PlainFrames(a) == IsNull(a.preemphasis) /\ ~a.remove_dc_offset /\ a.window = Ones(a.frame_length)
C6Theorem ==
  /\ (AfterAllocate /\ ~IsNull(args.max_num_frames) /\ ClaimedFrames(args) >= Val(args.max_num_frames))
       => d1 = Val(args.max_num_frames) /\ d1Max = Val(args.max_num_frames)
  /\ (AfterAllocate /\ ~IsNull(args.max_num_frames) /\ ClaimedFrames(args) < Val(args.max_num_frames))
       => d1 = ClaimedFrames(args)
          /\ d1Max = (IF args.do_pad THEN Val(args.max_num_frames) ELSE ClaimedFrames(args))
  /\ (AfterFrameLoop /\ ~IsNull(args.max_num_frames))
       => /\ i_frame = Max2(0, d1)
          /\ \A p \in DOMAIN transposedMagnitudeData : p % d1Max >= d1 => transposedMagnitudeData[p] = 0
  /\ (pc = "done" /\ ~IsNull(args.max_num_frames)) => FramesOfTensor = d1Max
  /\ (pc = "frames" /\ i_frame > 0 /\ PlainFrames(args))
       => \A j \in 0..(args.frame_length - 1) :
            inputBuffer[j] = (IF (i_frame - 1) * args.hop_length + j < ALen(waveform)
                              THEN waveform[(i_frame - 1) * args.hop_length + j] ELSE 0)
C6Witness ==
  /\ pc = "done"
  /\ ~IsNull(args.max_num_frames) /\ args.do_pad
  /\ d1 = 2 /\ d1Max = 4

\* C7: frame_length > fft_length, window length # frame_length, hop_length <= 0, or power null
\* with mel_filters given: the call fails before the waveform is padded, before an FFT plan
\* is built and before any frame is transformed.
ClaimedInvalid(a) ==
  \/ a.frame_length > EffectiveFft(a.frame_length, a.fft_length)
  \/ ALen(a.window) # a.frame_length
  \/ a.hop_length <= 0
  \/ (IsNull(a.power) /\ ~IsNull(a.mel_filters))
NothingComputed ==
  /\ waveform = args.waveform
  /\ fft = Null
  /\ i_frame = 0
  /\ inputBuffer = <<>> /\ outputBuffer = <<>> /\ transposedMagnitudeData = <<>>
  /\ mel_spec.data = <<>>
C7Theorem ==
  ClaimedInvalid(args) => /\ pc \in {"start", "error"}
                          /\ pc = "error" => err # "pad_mode not implemented yet"
                          /\ NothingComputed
C7Witness ==
  pc = "error" /\ args.center /\ args.hop_length <= 0 /\ ALen(args.window) = args.frame_length

\* C8 (as stated): every configuration error (non-positive reference / min_value / db_range,
\* missing mel filters, unsupported log_mel / power) is raised before any frame is transformed
\* and before any spectrogram buffer element is modified.
LateConfigError(a) ==
  \/ IsNull(a.mel_filters)
  \/ (~IsNull(a.power) /\ a.log_mel \notin {"null", "log", "log10", "dB"})
  \/ (~IsNull(a.power) /\ a.log_mel = "dB" /\ Val(a.power) \notin {1, 2})
  \/ (PowerSupported(a) /\ a.log_mel = "dB"
        /\ (a.reference <= 0 \/ ~LinPositive(a.min_value)
              \/ (~IsNull(a.db_range) /\ Val(a.db_range) <= 0)))
NonPositiveDbOption(a) ==
  a.reference <= 0 \/ ~LinPositive(a.min_value) \/ (~IsNull(a.db_range) /\ Val(a.db_range) <= 0)
C8Claim ==
  (LateConfigError(args) \/ NonPositiveDbOption(args))
    => /\ pc # "done"
       /\ i_frame = 0
       /\ AllZero(transposedMagnitudeData)

\* C8 (amended): such a call never returns a tensor, but the error is raised only after the
\* frame loop has run: missing mel filters after all d1 frames were transformed, the log_mel /
\* dB errors after mel projection and floor clipping as well.
LateErrors ==
  {"mel_filters must be provided", "log_mel must be one of null, log, log10 or dB",
   "Cannot use log_mel option with power", "reference must be greater than zero",
   "min_value must be greater than zero", "db_range must be greater than zero"}
C8Theorem ==
  /\ LateConfigError(args) => pc # "done"
  /\ (pc = "error" /\ err \in LateErrors)
       => /\ LateConfigError(args)
          /\ i_frame = Max2(0, d1)
          /\ err # "mel_filters must be provided"
               => \A p \in DOMAIN mel_spec.data : mel_spec.data[p].t # "lin"
                                                   \/ ~LinLess(mel_spec.data[p], args.mel_floor)
          /\ err = "db_range must be greater than zero"
               => \A p \in DOMAIN mel_spec.data : mel_spec.data[p].t # "lin"
C8Witness ==
  pc = "error" /\ err = "db_range must be greater than zero" /\ i_frame >= 2
    /\ \E p \in DOMAIN mel_spec.data : mel_spec.data[p].t = "lg"

\* C9 (as stated): a call with any pad_mode other than 'reflect' fails, whatever the other options.
C9Claim ==
  args.pad_mode # "reflect" => pc \in {"start", "validated", "error"}

\* C9 (amended): a call with center = true and a pad_mode other than 'reflect' fails before
\* the waveform is padded, with the not-implemented error unless validation failed first.
C9Theorem ==
  (args.center /\ args.pad_mode # "reflect")
    => /\ pc \in {"start", "validated", "error"}
       /\ waveform = args.waveform
       /\ (pc = "error" /\ ~ClaimedInvalid(args)) => err = "pad_mode not implemented yet"
C9Witness ==
  pc = "error" /\ err = "pad_mode not implemented yet" /\ args.center /\ args.pad_mode = "constant"

\* C10: the tensor returned with transpose = true is the matrix transpose of the tensor
\* returned with transpose = false (floor clipping and log applied to the same cells).
UntransposedResult ==
  LET nm == Len(Val(args.mel_filters))
      product == MatMul(Flat(Val(args.mel_filters), num_frequency_bins), nm,
                        num_frequency_bins, transposedMagnitudeData, d1Max)
      logged == LogMel(ClipMelFloor(product.data, args.mel_floor), args, d1, nm)
  IN [dims |-> product.dims, data |-> logged.data]
C10Claim ==
  (pc = "done" /\ args.transpose) => mel_spec = TensorTranspose(UntransposedResult)

\* C11: a call without mel_filters and with power 1 or 2 succeeds and returns the linear
\* spectrogram of shape (num_frequency_bins, num_frames); it is never rejected for the
\* missing filter bank.
C11Claim ==
  (IsNull(args.mel_filters) /\ PowerSupported(args))
    => /\ err # "mel_filters must be provided"
       /\ pc = "done" => mel_spec.dims = <<num_frequency_bins, d1Max>>

----------------------------------------------------------------------------
(* Properties of the FFT *)
LastCall == fftCalls[Len(fftCalls)]
Called == fftCalls # <<>>
Aliased(c) == c.out = c.inp
\* the call was made on an object that has the method
HasMethod(c) == c.op # "inverseTransform" \/ (fftVia = "plan" /\ fftPlan.isPowerOfTwo)

\* C12 (as stated): every transform, realTransform or inverseTransform call whose output and
\* input are the same buffer fails with the aliasing error before anything is written, on
\* plans of any length, directly and through the facade (stated for the calls whose method
\* exists on the object called).
C12Claim ==
  (Called /\ Aliased(LastCall) /\ HasMethod(LastCall))
    => /\ fftPc = "error"
       /\ fftErr = AliasingMessage
       /\ fftBufs = LastCall.before

\* C12 (amended): on a plan of power-of-two length such a call fails with the aliasing error
\* before anything is written (inverseTransform on the plan object only: the facade has no
\* such method).  A plan of non-power-of-two length makes no aliasing check: transform and
\* realTransform with one buffer succeed and overwrite it with the transform of its former
\* content; it has no inverseTransform.
C12Theorem ==
  (Called /\ Aliased(LastCall))
    => IF ~HasMethod(LastCall)
       THEN fftPc = "error" /\ fftErr = NoSuchMethod /\ fftBufs = LastCall.before
       ELSE IF fftPlan.isPowerOfTwo
       THEN fftPc = "error" /\ fftErr = AliasingMessage /\ fftBufs = LastCall.before
       ELSE /\ fftPc = "ready" /\ fftErr = ""
            /\ fftBufs[LastCall.out]
                 = NP2Transform(FFTNew(fftLength).fft, LastCall.before[LastCall.out],
                                LastCall.before[LastCall.inp], LastCall.op = "realTransform").out
C12Witness ==
  /\ Called /\ Aliased(LastCall) /\ LastCall.op = "realTransform"
  /\ fftLength = 8 /\ fftVia = "facade" /\ fftErr = AliasingMessage

\* C14: for every length N > 1 the facade holds the fixed-size plan exactly when N is a power
\* of two, with outputBufferSize = 2N; otherwise the Bluestein plan whose inner fixed-size
\* FFT has length M = the smallest power of two >= 2N-1, with outputBufferSize = 2M.
PowersOfTwo(n) == {2 ^ p : p \in 0..n}
SmallestPowerOfTwoAtLeast(n) ==
  CHOOSE m \in PowersOfTwo(n) : m >= n /\ \A m2 \in PowersOfTwo(n) : m2 >= n => m <= m2
IsFixedSizePlan(plan) == DOMAIN plan = {"size", "csize", "width", "bitrev", "table"}
IsBluesteinPlan(plan) == "chirpBuffer" \in DOMAIN plan /\ IsFixedSizePlan(plan.f)
C14Theorem ==
  fftPc # "new"
    => IF fftLength \in PowersOfTwo(fftLength)
       THEN /\ IsFixedSizePlan(fftPlan.fft)
            /\ fftPlan.fft.size = fftLength
            /\ fftPlan.outputBufferSize = 2 * fftLength
       ELSE /\ IsBluesteinPlan(fftPlan.fft)
            /\ fftPlan.fft.f.size = SmallestPowerOfTwoAtLeast(2 * fftLength - 1)
            /\ fftPlan.outputBufferSize = 2 * SmallestPowerOfTwoAtLeast(2 * fftLength - 1)
C14Witness ==
  fftPc = "built" /\ fftLength = 12 /\ fftPlan.outputBufferSize = 64 /\ fftPlan.fft.f.size = 32

\* C15: after a realTransform on a plan of length N, bin N-k of the output is the complex
\* conjugate of bin k for every 1 <= k < N, on both kinds of plan.
Hermitian(out, n) ==
  \A k \in 1..(n - 1) : /\ out[2 * (n - k)] = out[2 * k]
                        /\ out[2 * (n - k) + 1] = QNeg(out[2 * k + 1])
                        /\ ~QIsNaN(out[2 * k]) /\ ~QIsNaN(out[2 * k + 1])
C15Theorem ==
  (Called /\ LastCall.op = "realTransform" /\ fftErr = "")
    => Hermitian(fftBufs[LastCall.out], fftLength)
C15Witness ==
  /\ Called /\ LastCall.op = "realTransform" /\ fftErr = ""
  /\ fftLength = 3 /\ fftBufs[LastCall.out][3] # QZero

\* C16 (as stated): for power-of-two and non-power-of-two N alike, inverseTransform applied
\* to the result of transform returns the original complex input elementwise.
RoundTrip ==
  /\ Len(fftCalls) >= 2
  /\ fftCalls[Len(fftCalls) - 1].op = "transform"
  /\ ~Aliased(fftCalls[Len(fftCalls) - 1])
  /\ LastCall.op = "inverseTransform"
  /\ LastCall.inp = fftCalls[Len(fftCalls) - 1].out
  /\ ~Aliased(LastCall)
OriginalInput == fftCalls[Len(fftCalls) - 1].before[fftCalls[Len(fftCalls) - 1].inp]
C16Claim ==
  (RoundTrip /\ fftVia = "plan")
    => /\ fftErr = ""
       /\ \A j \in 0..(2 * fftLength - 1) : fftBufs[LastCall.out][j] = OriginalInput[j]

\* C16 (amended): on the plan of a power-of-two N, inverseTransform applied to the result of
\* transform returns the original complex input elementwise; the inverse of a forward
\* transform without the 1/N scaling is N times the input.  The plan of a non-power-of-two
\* N and the FFT facade have no inverseTransform.
C16Theorem ==
  RoundTrip
    => IF HasMethod(LastCall)
       THEN /\ fftErr = ""
            /\ \A j \in 0..(2 * fftLength - 1) : fftBufs[LastCall.out][j] = OriginalInput[j]
       ELSE fftPc = "error" /\ fftErr = NoSuchMethod /\ fftBufs = LastCall.before
C16Witness ==
  /\ RoundTrip /\ fftErr = "" /\ fftLength = 8
  /\ fftBufs[LastCall.out][2] = QInt(1) /\ fftBufs[LastCall.inp][2] # QInt(1)

\* C17 (as stated): no call changes any field or internal array of the plan it is invoked on.
C17Claim == fftPc \in {"ready", "error", "built"} => fftPlan = FFTNew(fftLength)

\* C17 (amended): no call changes the fixed-size plan, nor the sizes, the chirp tables and
\* the inner plan of a Bluestein plan; every transform / realTransform on a Bluestein plan
\* overwrites its four scratch buffers with the intermediate values of that call, and
\* neither they nor the result depend on what earlier calls left in them.
ScratchFields == {"buffer1", "buffer2", "outBuffer1", "outBuffer2"}
SameBut(p, q, fields) == DOMAIN p = DOMAIN q /\ \A f \in DOMAIN p \ fields : p[f] = q[f]
C17Theorem ==
  fftPc \in {"ready", "error", "built"}
    => /\ fftPlan.isPowerOfTwo => fftPlan = FFTNew(fftLength)
       /\ ~fftPlan.isPowerOfTwo
            => /\ SameBut(fftPlan, FFTNew(fftLength), {"fft"})
               /\ SameBut(fftPlan.fft, FFTNew(fftLength).fft, ScratchFields)
       /\ (Called /\ fftErr = "" /\ ~fftPlan.isPowerOfTwo)
            => LET alone == NP2Transform(FFTNew(fftLength).fft, LastCall.before[LastCall.out],
                                         LastCall.before[LastCall.inp], LastCall.op = "realTransform")
               IN fftPlan.fft = alone.plan /\ fftBufs[LastCall.out] = alone.out
C17Witness ==
  /\ Len(fftCalls) = 2 /\ fftErr = "" /\ fftLength = 3
  /\ fftPlan.fft.outBuffer2 # FFTNew(fftLength).fft.outBuffer2

----------------------------------------------------------------------------
(* Properties of the mel filter bank *)

PlainBank == MelFilterBank([melArgs EXCEPT !.norm = "null"]).filters
RowWeights(row) == {row[j] : j \in DOMAIN row}
RowPeak(row) == CHOOSE w \in RowWeights(row) : \A v \in RowWeights(row) : ~RatLess(w, v)
Support(row) == {j \in DOMAIN row : row[j] # RatInt(0)}
BinAtCentre(i) ==
  \E j \in DOMAIN MelFftFreqs(melArgs) : MelFftFreqs(melArgs)[j] = MelFilterFreqs(melArgs)[i + 1]

\* C13 as stated: with norm = null every filter row has peak weight exactly
\* 1.0, and with norm = 'slaney' each row has the same support as with
\* norm = null.
C13Claim ==
  melPc = "done"
    => /\ melArgs.norm = "null" => \A i \in DOMAIN melFilters : RowPeak(melFilters[i]) = RatInt(1)
       /\ melArgs.norm = "slaney"
            => \A i \in DOMAIN melFilters : Support(melFilters[i]) = Support(PlainBank[i])

\* C13 amended: for min_frequency < max_frequency, with norm = null every
\* weight lies between 0 and 1 and equals 1 exactly at a bin whose frequency
\* is the filter's centre frequency, so a row's peak is 1.0 if such a bin
\* exists and below 1.0 otherwise; with norm = 'slaney' each row has the same
\* support as with norm = null.
C13Theorem ==
  melPc = "done"
    => /\ melArgs.norm = "null"
            => \A i \in DOMAIN melFilters :
                 /\ \A j \in DOMAIN melFilters[i] :
                      /\ ~RatLess(melFilters[i][j], RatInt(0))
                      /\ ~RatLess(RatInt(1), melFilters[i][j])
                      /\ melFilters[i][j] = RatInt(1)
                           <=> MelFftFreqs(melArgs)[j] = MelFilterFreqs(melArgs)[i + 1]
                 /\ RowPeak(melFilters[i]) = RatInt(1) <=> BinAtCentre(i)
       /\ melArgs.norm = "slaney"
            => \A i \in DOMAIN melFilters : Support(melFilters[i]) = Support(PlainBank[i])

\* a slaney-normalised bank whose plain counterpart has a row peaking at 1.0
\* and a row with non-empty support peaking below 1.0
C13Witness ==
  /\ melPc = "done"
  /\ melArgs.norm = "slaney"
  /\ melFilters # PlainBank
  /\ \E i \in DOMAIN PlainBank : RowPeak(PlainBank[i]) = RatInt(1)
  /\ \E i \in DOMAIN PlainBank :
       /\ Support(melFilters[i]) # {}
       /\ RatLess(RowPeak(PlainBank[i]), RatInt(1))

----------------------------------------------------------------------------
(* Properties of the window function *)

WinReturned == winPc \in {"done", "error"}
WinKnown == winArgs.name \in KnownWindows
FrameAllows == IsNull(winArgs.frame_length) \/ winArgs.window_length <= winArgs.frame_length[1]
OneSample(x) == [i \in 0..0 |-> x]
CosineKinds == {"hann", "hann_window", "hamming", "povey"}

\* C18 as stated: for every kind and both values of periodic, a length below 1
\* yields an empty window without error and length 1 yields [1.0].
C18Claim ==
  (WinReturned /\ WinKnown /\ FrameAllows)
    => /\ winArgs.window_length < 1 => winPc = "done" /\ winOut = <<>>
       /\ winArgs.window_length = 1 => winPc = "done" /\ winOut = OneSample(SampleOne)

\* C18 amended: the degenerate cases are those of the generator length M
\* (window_length + 1 if periodic, else window_length).  window_length = 0
\* yields an empty window for every kind and both values of periodic.  A
\* negative window_length yields an empty window for hann, hamming and povey,
\* and for boxcar when M = 0, and fails with a RangeError for boxcar when M is
\* negative.  window_length = 1 yields [1.0] for every kind when not periodic
\* and for boxcar when periodic; periodic hann and povey yield [0] and periodic
\* hamming yields [0.08], the first sample of the two-sample window.
C18Theorem ==
  (WinReturned /\ WinKnown /\ FrameAllows)
    => LET M == IF winArgs.periodic THEN winArgs.window_length + 1 ELSE winArgs.window_length
       IN /\ winArgs.window_length = 0 => winPc = "done" /\ winOut = <<>>
          /\ (winArgs.window_length < 0 /\ (winArgs.name \in CosineKinds \/ M = 0))
               => winPc = "done" /\ winOut = <<>>
          /\ (winArgs.window_length < 0 /\ winArgs.name = "boxcar" /\ M < 0)
               => winPc = "error" /\ winErr = "RangeError: Invalid typed array length"
          /\ (winArgs.window_length = 1 /\ (~winArgs.periodic \/ winArgs.name = "boxcar"))
               => winPc = "done" /\ winOut = OneSample(SampleOne)
          /\ (winArgs.window_length = 1 /\ winArgs.periodic /\ winArgs.name \in {"hann", "hann_window", "povey"})
               => winPc = "done" /\ winOut = OneSample(SampleZero)
          /\ (winArgs.window_length = 1 /\ winArgs.periodic /\ winArgs.name = "hamming")
               => winPc = "done" /\ winOut = OneSample(Sample(Rat(8, 100)))

\* a periodic hamming window of length 1 has been returned
C18Witness ==
  /\ winPc = "done"
  /\ winArgs.window_length = 1
  /\ winArgs.periodic
  /\ winArgs.name = "hamming"
  /\ ALen(winOut) = 1

PaddedAt(w, frame_length, offset) ==
  [i \in 0..(frame_length - 1) |->
     IF i >= offset /\ i < offset + ALen(w) THEN w[i - offset] ELSE SampleZero]
Unframed == WindowFunction([winArgs EXCEPT !.frame_length = <<>>]).window

\* C19: with frame_length >= window_length the result has exactly
\* frame_length samples, the window zero-padded up to the frame length; with
\* no frame_length it has exactly window_length samples; with
\* window_length > frame_length the call fails.
C19Claim ==
  (WinReturned /\ WinKnown /\ winArgs.window_length >= 0)
    => /\ IsNull(winArgs.frame_length) => winPc = "done" /\ ALen(winOut) = winArgs.window_length
       /\ (~IsNull(winArgs.frame_length) /\ winArgs.frame_length[1] >= winArgs.window_length)
            => /\ winPc = "done"
               /\ ALen(winOut) = winArgs.frame_length[1]
               /\ \E offset \in 0..(winArgs.frame_length[1] - winArgs.window_length) :
                    winOut = PaddedAt(Unframed, winArgs.frame_length[1], offset)
       /\ (~IsNull(winArgs.frame_length) /\ winArgs.window_length > winArgs.frame_length[1])
            => winPc = "error"

----------------------------------------------------------------------------
(* Properties of the priority queue *)

PqHeapBag == [v \in PqValues |-> Cardinality({i \in DOMAIN pqHeap : pqHeap[i] = v})]
\* the k highest of the values offered, counted per value
PqTopK(k) ==
  LET above(v) == LET S[w \in v..MaxPqValue] ==
                        IF w = MaxPqValue THEN 0 ELSE pqOffered[w + 1] + S[w + 1]
                  IN S[v]
      room(v) == IF k > above(v) THEN k - above(v) ELSE 0
  IN [v \in PqValues |-> Min2(pqOffered[v], room(v))]
PqFull == ALen(pqHeap) = pqMaxSize
PqLowest == CHOOSE v \in {pqHeap[i] : i \in DOMAIN pqHeap} : \A i \in DOMAIN pqHeap : v <= pqHeap[i]

\* C20: after any sequence of push/extend calls a queue with maxSize = k holds
\* exactly the k highest-priority values offered so far (all of them if fewer
\* than k), and in a full queue _smallest() is the index of the
\* lowest-priority element.
C20Claim ==
  /\ PqHeapBag = PqTopK(pqMaxSize)
  /\ PqFull => pqHeap[PqSmallest(ALen(pqHeap))] = PqLowest

\* heap order: no child has higher priority than its parent
PqHeapOrder ==
  \A i \in DOMAIN pqHeap : i > 0 => ~PqComparator(pqHeap[i], pqHeap[PqParent(i)])
PqHighest(heap, v) == (\E i \in DOMAIN heap : heap[i] = v) /\ (\A i \in DOMAIN heap : ~PqComparator(heap[i], v))

\* C21 as stated: after any sequence of push, extend, pop and replace calls the
\* heap order holds at every parent/child pair, peek() and pop() return an
\* element of highest priority among those in the queue, and size never
\* exceeds maxSize.
C21Claim ==
  /\ PqHeapOrder
  /\ pqHeap # <<>> => PqHighest(pqHeap, PqPeek(pqHeap)[1])
  /\ (pqLast.op = "pop" /\ pqLast.before # <<>>)
       => pqLast.ret # <<>> /\ PqHighest(pqLast.before, pqLast.ret[1])
  /\ ALen(pqHeap) <= pqMaxSize

\* C21 amended: heap order and the results of peek() and pop() hold as stated
\* for every maxSize; size never exceeds maxSize when maxSize >= 1, and never
\* exceeds 1 when maxSize = 0, where replace() on the empty queue inserts its
\* value.
C21Theorem ==
  /\ PqHeapOrder
  /\ pqHeap # <<>> => PqHighest(pqHeap, PqPeek(pqHeap)[1])
  /\ (pqLast.op = "pop" /\ pqLast.before # <<>>)
       => pqLast.ret # <<>> /\ PqHighest(pqLast.before, pqLast.ret[1])
  /\ pqMaxSize >= 1 => ALen(pqHeap) <= pqMaxSize
  /\ pqMaxSize = 0 => ALen(pqHeap) <= 1

\* a pop from a full queue of three that had to move the right child up
C21Witness ==
  /\ pqLast.op = "pop"
  /\ ALen(pqLast.before) = 3
  /\ pqLast.before[2] > pqLast.before[1]
  /\ ALen(pqHeap) = 2

----------------------------------------------------------------------------
(* The FFT against the discrete Fourier transform *)

\* the reference: bin k of the DFT of the N complex numbers x[2n] + i x[2n+1],
\* sum over n of x[n] * (cos(2 pi k n / N) - i sin(2 pi k n / N))
RECURSIVE DftRe(_, _, _, _)
DftRe(x, N, k, n) ==
  IF n >= N THEN QZero
  ELSE QAdd(QAdd(QMul(x[2 * n], Cos24((24 * k * n) \div N)),
                 QMul(x[2 * n + 1], Sin24((24 * k * n) \div N))),
            DftRe(x, N, k, n + 1))
RECURSIVE DftIm(_, _, _, _)
DftIm(x, N, k, n) ==
  IF n >= N THEN QZero
  ELSE QAdd(QSub(QMul(x[2 * n + 1], Cos24((24 * k * n) \div N)),
                 QMul(x[2 * n], Sin24((24 * k * n) \div N))),
            DftIm(x, N, k, n + 1))
IsDftOf(out, x, N) ==
  \A k \in 0..(N - 1) : out[2 * k] = DftRe(x, N, k, 0) /\ out[2 * k + 1] = DftIm(x, N, k, 0)
LastInput == LastCall.before[LastCall.inp]
LastOutput == fftBufs[LastCall.out]

\* C22: after P2FFT.transform on a plan of length N, output bin k is the sum
\* over n of x[n] * exp(-2 pi i k n / N), for every complex input x of the
\* call (checked exactly for N = 2, 4 and 8).
C22Theorem ==
  (Called /\ LastCall.op = "transform" /\ fftErr = "" /\ fftPlan.isPowerOfTwo)
    => IsDftOf(LastOutput, LastInput, fftLength)
\* a transform of length 4 whose input has a non-zero imaginary part and whose
\* bin 1 differs from bin 3
C22Witness ==
  /\ Called /\ LastCall.op = "transform" /\ fftErr = "" /\ fftLength = 4
  /\ LastInput[1] # QZero
  /\ <<LastOutput[2], LastOutput[3]>> # <<LastOutput[6], LastOutput[7]>>

\* the complex input (x[n], 0) built from the first N numbers of a real input
RealAsComplex(data, N) ==
  [j \in 0..(2 * N - 1) |-> IF j % 2 = 0 THEN data[j \div 2] ELSE QZero]

\* C25: P2FFT.realTransform on the real input x[0..N-1] leaves in the output buffer
\* what transform leaves there for the complex input (x[n], 0): every one of the
\* 2N numbers, bins 0 and N/2 and the mirrored upper half included.
C25Theorem ==
  (Called /\ LastCall.op = "realTransform" /\ fftErr = "" /\ fftPlan.isPowerOfTwo)
    => /\ LastOutput = P2Transform4(fftPlan.fft, LastCall.before[LastCall.out],
                                    RealAsComplex(LastInput, fftLength), 1)
       /\ IsDftOf(LastOutput, RealAsComplex(LastInput, fftLength), fftLength)
\* a real transform of length 8 into a buffer that held other numbers, with a
\* non-real bin below N/2
C25Witness ==
  /\ Called /\ LastCall.op = "realTransform" /\ fftErr = "" /\ fftLength = 8
  /\ LastCall.before[LastCall.out][1] # QZero
  /\ LastOutput[3] # QZero /\ LastOutput[15] = QNeg(LastOutput[3])

\* the same call made on a newly built FFT, with a zeroed output buffer and
\* the same input
OnFreshPlan(fresh, c) ==
  PlanCall(fresh, c.op, QZeros(fresh.outputBufferSize), c.before[c.inp], FALSE)

\* C28: what a transform or realTransform call leaves in its output buffer is
\* determined by the call's input alone: it is what the same call gives on a
\* newly built plan with a zeroed output buffer, whatever calls came before
\* and whatever the output buffer and the plan's own buffers held.
C28Theorem ==
  (Called /\ LastCall.op \in {"transform", "realTransform"} /\ fftErr = "")
    => \A fresh \in {FFTNew(fftLength)} :
         \A r \in {OnFreshPlan(fresh, LastCall)} : r.err = "" /\ LastOutput = r.out
\* a second transform of the same input on a Bluestein plan whose own buffers
\* and whose output buffer hold the first call's numbers
C28Witness ==
  /\ Len(fftCalls) = 2 /\ fftErr = "" /\ fftLength = 3
  /\ fftCalls[1].op = "realTransform" /\ LastCall.op = "transform"
  /\ fftCalls[1].inp = LastCall.inp /\ fftCalls[1].out = LastCall.out
  /\ LastCall.before[LastCall.out] # QZeros(fftPlan.outputBufferSize)
  /\ fftPlan # FFTNew(fftLength)
  /\ LastOutput[1] # QZero
  /\ LastOutput # LastCall.before[LastCall.out]

----------------------------------------------------------------------------
(* The frame loop of spectrogram *)

\* the samples of frame i, zero-filled up to fft_length
CopiedSamples(i) == Min2(args.frame_length, ALen(waveform) - i * args.hop_length)
FrameSlice(i) ==
  [j \in 0..(Val(fft_length) - 1) |->
     IF j < CopiedSamples(i) THEN waveform[i * args.hop_length + j] ELSE 0]
\* the input buffer of frame i_frame once lines 559-570 have run
Populated == PopulateBuffer(inputBuffer, waveform, args.frame_length, args.hop_length, i_frame)
InFrameLoop == pc = "frames" /\ i_frame < d1

\* C23: at the start of the processing of every frame i the reused input buffer
\* holds waveform[i*hop_length + j] at each j below min(frame_length,
\* waveform_length - i*hop_length) and 0 at every other index below fft_length,
\* and the buffer handed to realTransform is zero from frame_length on.
C23Theorem ==
  /\ InFrameLoop => Populated = FrameSlice(i_frame)
  /\ (pc = "frames" /\ i_frame >= 1)
       => \A j \in args.frame_length..(Val(fft_length) - 1) : inputBuffer[j] = 0
\* a frame that reaches past the end of the waveform, entered with the
\* previous frame's numbers still in the buffer
C23Witness ==
  /\ InFrameLoop /\ i_frame >= 1
  /\ args.frame_length = 2 /\ Val(fft_length) = 4
  /\ CopiedSamples(i_frame) = 1
  /\ inputBuffer[1] # 0
  /\ Populated[0] # 0 /\ Populated[1] = 0

\* the out-of-place reference for frame i: from the unmodified samples x of the
\* frame, the mean of the copied samples is subtracted (remove_dc_offset), then
\* y[0] = (1 - p) * x[0] and y[j] = x[j] - p * x[j-1], then the window is applied
FrameMean(x, n) == IF args.remove_dc_offset /\ n > 0 THEN SumTo(x, n) \div n ELSE 0
Centred(x, n) == [j \in DOMAIN x |-> IF j < n THEN x[j] - FrameMean(x, n) ELSE x[j]]
Emphasised(x, n, p) ==
  [j \in DOMAIN x |-> IF j = 0 THEN (1 - p) * x[0]
                      ELSE IF j < n THEN x[j] - p * x[j - 1]
                      ELSE x[j]]
Windowed(x) == [j \in DOMAIN x |-> IF j < ALen(args.window) THEN x[j] * args.window[j] ELSE x[j]]
ReferenceFrame(i) ==
  LET c == Centred(FrameSlice(i), CopiedSamples(i))
  IN Windowed(IF IsNull(args.preemphasis) THEN c
              ELSE Emphasised(c, CopiedSamples(i), Val(args.preemphasis)))

\* C24: the frame that the in-place loops of spectrogram hand to realTransform
\* is the out-of-place reference: mean removed first (when remove_dc_offset),
\* then y[j] = x[j] - preemphasis * x[j-1] for 1 <= j < copied samples and
\* y[0] = (1 - preemphasis) * x[0], then the window.
C24Theorem ==
  (pc = "frames" /\ i_frame >= 1) => inputBuffer = ReferenceFrame(i_frame - 1)
\* a full frame of four samples with DC removal, pre-emphasis 2 and a
\* non-constant window, whose third sample depends on the unmodified second
C24Witness ==
  /\ pc = "frames" /\ i_frame = 1
  /\ args.frame_length = 4 /\ args.remove_dc_offset /\ args.preemphasis = Some(2)
  /\ args.window = Staircase(4)
  /\ FrameMean(FrameSlice(0), 4) # 0
  /\ inputBuffer[2] # 0 /\ inputBuffer[1] # 0
  /\ inputBuffer[2] # 3 * (FrameSlice(0)[2] - 2 * FrameSlice(0)[1])

\* C27: once the frame count is computed and the buffers are allocated (lines
\* 528-555) for a call that passed validation, the number of frames and the
\* size of the magnitude buffer are non-negative, and the allocation did not fail.
Allocated == fft # Null
C27Claim ==
  Allocated => /\ num_frames >= 0
               /\ num_frequency_bins * d1Max >= 0
               /\ err # "RangeError: Invalid typed array length"

----------------------------------------------------------------------------
(* The chunks of splitTextIntoChunks *)

\* C26: every chunk that splitTextIntoChunks(text, maxChunkLength) returns is
\* non-empty and at most maxChunkLength characters long.
C26Claim ==
  ttsPc = "done"
    => \A k \in 1..Len(ttsResult) : Len(ttsResult[k]) >= 1 /\ Len(ttsResult[k]) <= ttsMax

----------------------------------------------------------------------------
(* The connections of a storage instance *)

Delivered == {r \in DOMAIN stoReqs : stoReqs[r].state \in {"open", "closed"}}
OpenConnections == {r \in DOMAIN stoReqs : stoReqs[r].state = "open"}
Quiescent ==
  /\ \A r \in DOMAIN stoReqs : stoReqs[r].state # "pending"
  /\ \A o \in DOMAIN stoOps : stoOps[o].pc \in {"done", "failed"}

\* C29: under any interleaving of the operations of one storage instance at
\* most one connection is open; every connection an open request delivered is
\* the one in the db field or has been closed; and when close() has completed
\* with no operation pending the instance holds no connection.
C29Claim ==
  /\ Cardinality(OpenConnections) <= 1
  /\ \A r \in Delivered : stoDb = r \/ stoReqs[r].state = "closed"
  /\ (stoLast = "close" /\ Quiescent) => stoDb = NoConnection

====
